---------------------------- MODULE Spec2Model ----------------------------
(***************************************************************************)
(* Device-state reconciliation core of the Crestron Home integration:      *)
(* the device manager's poll (fetch, merge, classify, change detection,    *)
(* grouping), the coordinator's refresh cycle and the config-entry setup.  *)
(*                                                                         *)
(* Python strings that the code inspects character by character (names,    *)
(* rooms, hub types, ignore patterns) are sequences of one-character       *)
(* strings.  Python's None is NoneStr for such a string, NoId for an id    *)
(* and "None" for ha_state; a key missing from a raw payload is Absent.    *)
(***************************************************************************)
EXTENDS Integers, Sequences, FiniteSets, TLC

\* ------------------------------------------------------------------ bounds
MaxPolls == 3
MaxTime == 6
MaxCommands == 3
MaxLiveTime == 80
MaxLiveCommands == 1
MaxRefreshes == 2
MaxLookups == 3
MaxCallTime == 9

\* ------------------------------------------------------- Python value model
NoneStr == <<"<None>">>
NoId == -1
Absent == "<absent>"
AbsentStr == <<"<absent>">>

UpperChars == <<"A","B","C","D","E","F","G","H","I","J","K","L","M",
                "N","O","P","Q","R","S","T","U","V","W","X","Y","Z">>
LowerChars == <<"a","b","c","d","e","f","g","h","i","j","k","l","m",
                "n","o","p","q","r","s","t","u","v","w","x","y","z">>

\* str.lower(), one character
LowerChar(c) ==
    IF \E i \in 1..Len(UpperChars) : UpperChars[i] = c
    THEN LowerChars[CHOOSE i \in 1..Len(UpperChars) : UpperChars[i] = c]
    ELSE c

\* str.lower()
Lower(s) == [i \in 1..Len(s) |-> LowerChar(s[i])]

\* str.startswith(p)
StartsWith(s, p) == Len(p) <= Len(s) /\ SubSeq(s, 1, Len(p)) = p

\* str.endswith(p)
EndsWith(s, p) == Len(p) <= Len(s) /\ SubSeq(s, Len(s) - Len(p) + 1, Len(s)) = p

\* p in s
Contains(s, p) ==
    \E i \in 0..(Len(s) - Len(p)) : SubSeq(s, i + 1, i + Len(p)) = p

RECURSIVE LStrip(_)
LStrip(s) == IF s # <<>> /\ Head(s) = " " THEN LStrip(Tail(s)) ELSE s

RECURSIVE RStrip(_)
RStrip(s) ==
    IF s # <<>> /\ s[Len(s)] = " " THEN RStrip(SubSeq(s, 1, Len(s) - 1)) ELSE s

\* str.strip()
Strip(s) == RStrip(LStrip(s))

\* str(x) inside an f-string: None prints as "None"
Fmt(s) == IF s = NoneStr THEN <<"N","o","n","e">> ELSE s

\* ------------------------------------------------------------- const.py
DEVICE_TYPE_LIGHT == "light"
DEVICE_TYPE_SHADE == "shade"
DEVICE_TYPE_SCENE == "scene"
DEVICE_TYPE_BINARY_SENSOR == "binary_sensor"
DEVICE_TYPE_SENSOR == "sensor"
DEVICE_TYPE_THERMOSTAT == "thermostat"

PlatformTypes ==
    {DEVICE_TYPE_LIGHT, DEVICE_TYPE_SHADE, DEVICE_TYPE_SCENE,
     DEVICE_TYPE_BINARY_SENSOR, DEVICE_TYPE_SENSOR, DEVICE_TYPE_THERMOSTAT}

\* hub type / subtype strings
Dimmer == <<"D","i","m","m","e","r">>
Switch == <<"S","w","i","t","c","h">>
Shade == <<"S","h","a","d","e">>
Scene == <<"S","c","e","n","e">>
OccupancySensor == <<"O","c","c","u","p","a","n","c","y","S","e","n","s","o","r">>
DoorSensor == <<"D","o","o","r","S","e","n","s","o","r">>
PhotoSensor == <<"P","h","o","t","o","S","e","n","s","o","r">>
Thermostat == <<"T","h","e","r","m","o","s","t","a","t">>

\* ha_state is tri-state: True (available), False (unavailable), None (N/A)
HaTrue == "True"
HaFalse == "False"
HaNone == "None"

ReasonNameFilter == "Device hidden by name filter"
ReasonCategoryFilter == "Device hidden by category filter"
ReasonOffline == "Device is offline"

\* --------------------------------------------------------------- models.py
\* CrestronDevice.full_name raises AttributeError on None.lower()
FullNameRaises(d) == d.room # <<>> /\ d.name = NoneStr

\* CrestronDevice.full_name
full_name(d) ==
    IF d.room # <<>> /\ StartsWith(Lower(d.name), Lower(d.room))
    THEN Strip(d.name)
    ELSE Strip(d.room \o <<" ">> \o Fmt(d.name))

\* CrestronDevice.is_available
is_available(d) == d.connection # "offline"

\* ------------------------------------------------------- device_manager.py
\* self.device_type_mapping.get(t): None is ""
device_type_mapping(t) ==
    CASE t = Dimmer -> DEVICE_TYPE_LIGHT
      [] t = Switch -> DEVICE_TYPE_LIGHT
      [] t = Shade -> DEVICE_TYPE_SHADE
      [] t = Scene -> DEVICE_TYPE_SCENE
      [] t = OccupancySensor -> DEVICE_TYPE_BINARY_SENSOR
      [] t = DoorSensor -> DEVICE_TYPE_BINARY_SENSOR
      [] t = PhotoSensor -> DEVICE_TYPE_SENSOR
      [] t = Thermostat -> DEVICE_TYPE_THERMOSTAT
      [] OTHER -> ""

\* _get_ha_device_type looking the hub type up before the subtype
GetHaDeviceTypeTypeFirst(device_type, subtype) ==
    LET ha_type == IF device_type_mapping(device_type) # ""
                   THEN device_type_mapping(device_type)
                   ELSE device_type_mapping(subtype)
    IN IF device_type = Scene \/ subtype = Scene THEN DEVICE_TYPE_SCENE ELSE ha_type

\* _get_ha_device_type(device_type, subtype): None is ""
GetHaDeviceType(device_type, subtype) ==
    LET ha_type == IF device_type_mapping(subtype) # ""
                   THEN device_type_mapping(subtype)
                   ELSE device_type_mapping(device_type)
    IN IF device_type = Scene \/ subtype = Scene THEN DEVICE_TYPE_SCENE ELSE ha_type

\* a pattern of the form %x% handled as the pattern x%
PatternMatchesContainsAsPrefix(pattern, name, device_type) ==
    LET p == Lower(pattern)
        pct == <<"%">>
    IN IF StartsWith(p, pct) /\ EndsWith(p, pct)
       THEN LET search_term == SubSeq(p, 2, Len(p) - 1)
            IN StartsWith(name, search_term) \/ StartsWith(device_type, search_term)
       ELSE IF StartsWith(p, pct)
       THEN EndsWith(name, Tail(p)) \/ EndsWith(device_type, Tail(p))
       ELSE IF EndsWith(p, pct)
       THEN \/ StartsWith(name, SubSeq(p, 1, Len(p) - 1))
            \/ StartsWith(device_type, SubSeq(p, 1, Len(p) - 1))
       ELSE name = p \/ device_type = p

\* one pattern of _matches_ignored_pattern, name and device_type lower-cased
PatternMatches(pattern, name, device_type) ==
    LET p == Lower(pattern)
        pct == <<"%">>
    IN IF StartsWith(p, pct) /\ EndsWith(p, pct)
       THEN LET search_term == SubSeq(p, 2, Len(p) - 1)
            IN Contains(name, search_term) \/ Contains(device_type, search_term)
       ELSE IF StartsWith(p, pct)
       THEN EndsWith(name, Tail(p)) \/ EndsWith(device_type, Tail(p))
       ELSE IF EndsWith(p, pct)
       THEN \/ StartsWith(name, SubSeq(p, 1, Len(p) - 1))
            \/ StartsWith(device_type, SubSeq(p, 1, Len(p) - 1))
       ELSE name = p \/ device_type = p

\* _matches_ignored_pattern without the lower-casing of name and device_type
MatchesIgnoredPatternCaseSensitive(ignored, name, device_type) ==
    /\ ignored # <<>>
    /\ \E i \in 1..Len(ignored) : PatternMatches(ignored[i], name, device_type)

\* _matches_ignored_pattern(name, device_type)
MatchesIgnoredPattern(ignored, name, device_type) ==
    /\ ignored # <<>>
    /\ \E i \in 1..Len(ignored) :
          PatternMatches(ignored[i], Lower(name), Lower(device_type))

\* _CHANGE_FIELDS / _device_snapshot_tuple(device)
DeviceSnapshotTuple(d) ==
    <<d.status, d.level, d.position, d.connection, d.presence, d.door_status>>

\* _update_ha_parameters with the category check moved before the name filter
UpdateHaParametersCategoryFirst(cfg, d) ==
    LET ha_device_type == GetHaDeviceType(d.type, d.subtype)
    IN IF FullNameRaises(d)
       THEN [dev |-> d, raised |-> TRUE]
       ELSE IF ha_device_type # "" /\ ha_device_type \notin cfg.enabled
       THEN [dev |-> [d EXCEPT !.ha_hidden = TRUE, !.ha_state = HaNone,
                               !.ha_reason = ReasonCategoryFilter],
             raised |-> FALSE]
       ELSE IF MatchesIgnoredPattern(cfg.ignored, full_name(d), d.type)
       THEN [dev |-> [d EXCEPT !.ha_hidden = TRUE, !.ha_state = HaNone,
                               !.ha_reason = ReasonNameFilter],
             raised |-> FALSE]
       ELSE IF d.connection = "offline"
       THEN [dev |-> [d EXCEPT !.ha_hidden = FALSE, !.ha_state = HaFalse,
                               !.ha_reason = ReasonOffline],
             raised |-> FALSE]
       ELSE [dev |-> [d EXCEPT !.ha_hidden = FALSE, !.ha_state = HaTrue,
                               !.ha_reason = ""],
             raised |-> FALSE]

\* _update_ha_parameters(device): the device as left by the call, and
\* whether the call raised (full_name on a None name)
UpdateHaParameters(cfg, d) ==
    LET ha_device_type == GetHaDeviceType(d.type, d.subtype)
    IN IF FullNameRaises(d)
       THEN [dev |-> d, raised |-> TRUE]
       ELSE IF MatchesIgnoredPattern(cfg.ignored, full_name(d), d.type)
       THEN [dev |-> [d EXCEPT !.ha_hidden = TRUE, !.ha_state = HaNone,
                               !.ha_reason = ReasonNameFilter],
             raised |-> FALSE]
       ELSE IF ha_device_type # "" /\ ha_device_type \notin cfg.enabled
       THEN [dev |-> [d EXCEPT !.ha_hidden = TRUE, !.ha_state = HaNone,
                               !.ha_reason = ReasonCategoryFilter],
             raised |-> FALSE]
       ELSE IF d.connection = "offline"
       THEN [dev |-> [d EXCEPT !.ha_hidden = FALSE, !.ha_state = HaFalse,
                               !.ha_reason = ReasonOffline],
             raised |-> FALSE]
       ELSE [dev |-> [d EXCEPT !.ha_hidden = FALSE, !.ha_state = HaTrue,
                               !.ha_reason = ""],
             raised |-> FALSE]

\* dict.get(key, default) on a raw payload
Get(v, default) == IF v = Absent THEN default ELSE v

\* the same for a payload value that is a character string
GetS(v, default) == IF v = AbsentStr THEN default ELSE v

\* CrestronDevice(...) with the dataclass defaults; created is the identity
\* of the new object (the poll that allocated it)
NewDevice(key, id, room, name, type, connection, room_id, raw, now) ==
    [key |-> key, id |-> id, room |-> room, name |-> name,
     type |-> type, subtype |-> type,
     status |-> FALSE, level |-> 0, connection |-> connection,
     last_updated |-> now,
     ha_state |-> HaTrue, ha_hidden |-> FALSE, ha_reason |-> "",
     room_id |-> room_id,
     position |-> 0, value |-> NoId, unit |-> "", battery_level |-> "",
     presence |-> "", door_status |-> "",
     raw_data |-> raw, created |-> now]

\* position of key in the table (dict insertion order), 0 when absent
IndexOf(devs, key) ==
    IF \E i \in 1..Len(devs) : devs[i].key = key
    THEN CHOOSE i \in 1..Len(devs) : devs[i].key = key
    ELSE 0

Keys(devs) == {devs[i].key : i \in 1..Len(devs)}

DeviceAt(devs, key) == devs[IndexOf(devs, key)]

\* client.rooms, cached by the API client
Rooms == <<[id |-> 1, name |-> <<"K">>]>>

\* self._room_lookup.get(room_id, "") if room_id else ""
RoomLookup(room_id) ==
    IF room_id # NoId /\ room_id # 0 /\ \E i \in 1..Len(Rooms) : Rooms[i].id = room_id
    THEN Rooms[CHOOSE i \in 1..Len(Rooms) : Rooms[i].id = room_id].name
    ELSE <<>>

\* store the outcome of _update_ha_parameters on a table slot
PutClassified(st, idx, c) ==
    [devs |-> IF idx = 0 THEN Append(st.devs, c.dev)
              ELSE [st.devs EXCEPT ![idx] = c.dev],
     raised |-> c.raised]

\* the id check left out: an entry without an id is processed like any other
SkipFalsyIdNever(id) == FALSE

\* `if not device_id: continue` of _process_devices and _process_sensors
SkipFalsyId(id) == id = NoId \/ id = 0

\* _process_devices replacing the record of a known key by a new object
ProcessDeviceReplaces(cfg, st, raw, now) ==
    IF st.raised \/ SkipFalsyId(raw.id) THEN st
    ELSE
    LET device_type == IF raw.subType # <<>> THEN raw.subType ELSE raw.type
        dev_key == <<"device", raw.id>>
        idx == IndexOf(st.devs, dev_key)
        conn == IF device_type = Scene THEN "n/a"
                ELSE Get(raw.connectionStatus, "online")
        d0 == NewDevice(dev_key, raw.id, raw.roomName, GetS(raw.name, <<>>),
                        device_type, conn, raw.roomId, raw, now)
        d1 == [d0 EXCEPT !.status = raw.status, !.level = raw.level,
                         !.position = IF device_type = Shade
                                      THEN raw.position ELSE 0]
    IN PutClassified(st, idx, UpdateHaParameters(cfg, d1))

\* _process_devices taking the connection of every entry from the hub
ProcessDeviceHubConnection(cfg, st, raw, now) ==
    IF st.raised \/ SkipFalsyId(raw.id) THEN st
    ELSE
    LET device_type == IF raw.subType # <<>> THEN raw.subType ELSE raw.type
        dev_key == <<"device", raw.id>>
        idx == IndexOf(st.devs, dev_key)
        conn == Get(raw.connectionStatus, "online")
    IN IF idx # 0
       THEN LET d == st.devs[idx]
                d1 == [d EXCEPT !.status = raw.status, !.level = raw.level,
                                !.connection = conn, !.last_updated = now,
                                !.position = IF device_type = Shade
                                             THEN raw.position ELSE d.position,
                                !.raw_data = raw]
            IN PutClassified(st, idx, UpdateHaParameters(cfg, d1))
       ELSE LET d0 == NewDevice(dev_key, raw.id, raw.roomName, GetS(raw.name, <<>>),
                                device_type, conn, raw.roomId, raw, now)
                d1 == [d0 EXCEPT !.status = raw.status, !.level = raw.level,
                                 !.position = IF device_type = Shade
                                              THEN raw.position ELSE 0]
            IN PutClassified(st, 0, UpdateHaParameters(cfg, d1))

\* body of the loop of _process_devices for one raw entry
ProcessDevice(cfg, st, raw, now) ==
    IF st.raised \/ SkipFalsyId(raw.id) THEN st
    ELSE
    LET device_type == IF raw.subType # <<>> THEN raw.subType ELSE raw.type
        dev_key == <<"device", raw.id>>
        idx == IndexOf(st.devs, dev_key)
        conn == IF device_type = Scene THEN "n/a"
                ELSE Get(raw.connectionStatus, "online")
    IN IF idx # 0
       THEN LET d == st.devs[idx]
                d1 == [d EXCEPT !.status = raw.status, !.level = raw.level,
                                !.connection = conn, !.last_updated = now,
                                !.position = IF device_type = Shade
                                             THEN raw.position ELSE d.position,
                                !.raw_data = raw]
            IN PutClassified(st, idx, UpdateHaParameters(cfg, d1))
       ELSE LET d0 == NewDevice(dev_key, raw.id, raw.roomName, GetS(raw.name, <<>>),
                                device_type, conn, raw.roomId, raw, now)
                d1 == [d0 EXCEPT !.status = raw.status, !.level = raw.level,
                                 !.position = IF device_type = Shade
                                              THEN raw.position ELSE 0]
            IN PutClassified(st, 0, UpdateHaParameters(cfg, d1))

\* the assignments of _process_sensors with a status that is off only for
\* a vacant room
SensorFieldsVacantOnly(d, raw, sensor_type) ==
    IF sensor_type = OccupancySensor
    THEN [d EXCEPT !.presence = Get(raw.presence, "Unavailable"),
                   !.status = Get(raw.presence, "Unavailable") # "Vacant"]
    ELSE IF sensor_type = DoorSensor
    THEN [d EXCEPT !.door_status = Get(raw.door_status, "Closed"),
                   !.battery_level = Get(raw.battery_level, "Normal"),
                   !.status = (Get(raw.door_status, "Closed") = "Open")]
    ELSE IF sensor_type = PhotoSensor
    THEN [d EXCEPT !.value = raw.level, !.level = raw.level]
    ELSE d

\* the subtype-specific assignments shared by both branches of _process_sensors
SensorFields(d, raw, sensor_type) ==
    IF sensor_type = OccupancySensor
    THEN [d EXCEPT !.presence = Get(raw.presence, "Unavailable"),
                   !.status = Get(raw.presence, "Unavailable")
                                  \notin {"Vacant", "Unavailable"}]
    ELSE IF sensor_type = DoorSensor
    THEN [d EXCEPT !.door_status = Get(raw.door_status, "Closed"),
                   !.battery_level = Get(raw.battery_level, "Normal"),
                   !.status = (Get(raw.door_status, "Closed") = "Open")]
    ELSE IF sensor_type = PhotoSensor
    THEN [d EXCEPT !.value = raw.level, !.level = raw.level]
    ELSE d

\* _process_sensors taking the name and the type of a known key from the
\* payload
ProcessSensorRenames(cfg, st, raw, now) ==
    IF st.raised \/ SkipFalsyId(raw.id) THEN st
    ELSE
    LET sensor_type == raw.subType
        dev_key == <<"sensor", raw.id>>
        idx == IndexOf(st.devs, dev_key)
        room_name == RoomLookup(raw.roomId)
        conn == Get(raw.connectionStatus, "online")
    IN IF idx # 0
       THEN LET d == st.devs[idx]
                d1 == [d EXCEPT !.connection = conn, !.last_updated = now,
                                !.name = GetS(raw.name, <<>>),
                                !.type = sensor_type, !.subtype = sensor_type]
                d2 == [SensorFields(d1, raw, sensor_type) EXCEPT !.raw_data = raw]
            IN PutClassified(st, idx, UpdateHaParameters(cfg, d2))
       ELSE LET d0 == NewDevice(dev_key, raw.id, room_name, GetS(raw.name, <<>>),
                                sensor_type, conn, raw.roomId, raw, now)
            IN PutClassified(st, 0,
                   UpdateHaParameters(cfg, SensorFields(d0, raw, sensor_type)))

\* body of the loop of _process_sensors for one raw entry
ProcessSensor(cfg, st, raw, now) ==
    IF st.raised \/ SkipFalsyId(raw.id) THEN st
    ELSE
    LET sensor_type == raw.subType
        dev_key == <<"sensor", raw.id>>
        idx == IndexOf(st.devs, dev_key)
        room_name == RoomLookup(raw.roomId)
        conn == Get(raw.connectionStatus, "online")
    IN IF idx # 0
       THEN LET d == st.devs[idx]
                d1 == [d EXCEPT !.connection = conn, !.last_updated = now]
                d2 == [SensorFields(d1, raw, sensor_type) EXCEPT !.raw_data = raw]
            IN PutClassified(st, idx, UpdateHaParameters(cfg, d2))
       ELSE LET d0 == NewDevice(dev_key, raw.id, room_name, GetS(raw.name, <<>>),
                                sensor_type, conn, raw.roomId, raw, now)
            IN PutClassified(st, 0,
                   UpdateHaParameters(cfg, SensorFields(d0, raw, sensor_type)))

\* `if tstat_id is None: continue` of _process_thermostats
SkipNoneId(id) == id = NoId

\* body of the loop of _process_thermostats for one raw entry; the
\* try/except swallows what _update_ha_parameters raises
ProcessThermostat(cfg, st, raw, now) ==
    IF st.raised \/ SkipNoneId(raw.id) THEN st
    ELSE
    LET dev_key == <<"thermostat", raw.id>>
        idx == IndexOf(st.devs, dev_key)
        room_name == RoomLookup(raw.roomId)
        conn == Get(raw.connectionStatus, "online")
    IN IF idx # 0
       THEN LET d == st.devs[idx]
                d1 == [d EXCEPT !.type = Thermostat, !.subtype = Thermostat,
                                !.connection = conn, !.raw_data = raw,
                                !.last_updated = now]
            IN [PutClassified(st, idx, UpdateHaParameters(cfg, d1))
                   EXCEPT !.raised = FALSE]
       ELSE LET d0 == NewDevice(dev_key, raw.id, room_name,
                                GetS(raw.name, Thermostat),
                                Thermostat, conn, raw.roomId, raw, now)
            IN [PutClassified(st, 0, UpdateHaParameters(cfg, d0))
                   EXCEPT !.raised = FALSE]

RECURSIVE ProcessDevices(_, _, _, _)
\* _process_devices(devices_data)
ProcessDevices(cfg, st, devices_data, now) ==
    IF devices_data = <<>> THEN st
    ELSE ProcessDevices(cfg, ProcessDevice(cfg, st, Head(devices_data), now),
                        Tail(devices_data), now)

RECURSIVE ProcessSensors(_, _, _, _)
\* _process_sensors(sensors_data)
ProcessSensors(cfg, st, sensors_data, now) ==
    IF sensors_data = <<>> THEN st
    ELSE ProcessSensors(cfg, ProcessSensor(cfg, st, Head(sensors_data), now),
                        Tail(sensors_data), now)

RECURSIVE ProcessThermostats(_, _, _, _)
\* _process_thermostats(thermostats_data)
ProcessThermostats(cfg, st, thermostats_data, now) ==
    IF thermostats_data = <<>> THEN st
    ELSE ProcessThermostats(cfg,
             ProcessThermostat(cfg, st, Head(thermostats_data), now),
             Tail(thermostats_data), now)

\* a change detection that reports a new key as changed
ChangeDetectionNewAsChanged(devs, prev, names) ==
    LET IsNew(i) == devs[i].key \notin DOMAIN prev
        IsChanged(i) == /\ devs[i].key \in DOMAIN prev
                        /\ DeviceSnapshotTuple(devs[i]) # prev[devs[i].key]
        Logs(i) == IsNew(i) \/ IsChanged(i)
        Bad == {i \in 1..Len(devs) : Logs(i) /\ FullNameRaises(devs[i])}
        stop == IF Bad = {} THEN Len(devs) + 1
                ELSE CHOOSE i \in Bad : \A j \in Bad : i <= j
    IN IF DOMAIN prev = {}
       THEN [ran |-> FALSE, discovered |-> {}, changed |-> {}, removed |-> {},
             raised |-> FALSE]
       ELSE [ran |-> TRUE,
             discovered |-> {},
             changed |-> {devs[i].key : i \in {j \in 1..(stop - 1) : Logs(j)}},
             removed |-> IF Bad # {} THEN {}
                         ELSE {<<k, names[k]>> : k \in DOMAIN prev \ Keys(devs)},
             raised |-> Bad # {}]

\* lines 205-217 of poll_devices: the discovered / changed / removed log
\* records; evaluating full_name for a log record raises on a None name and
\* ends the loop
ChangeDetection(devs, prev, names) ==
    LET IsNew(i) == devs[i].key \notin DOMAIN prev
        IsChanged(i) == /\ devs[i].key \in DOMAIN prev
                        /\ DeviceSnapshotTuple(devs[i]) # prev[devs[i].key]
        Logs(i) == IsNew(i) \/ IsChanged(i)
        Bad == {i \in 1..Len(devs) : Logs(i) /\ FullNameRaises(devs[i])}
        stop == IF Bad = {} THEN Len(devs) + 1
                ELSE CHOOSE i \in Bad : \A j \in Bad : i <= j
    IN IF DOMAIN prev = {}
       THEN [ran |-> FALSE, discovered |-> {}, changed |-> {}, removed |-> {},
             raised |-> FALSE]
       ELSE [ran |-> TRUE,
             discovered |-> {devs[i].key : i \in {j \in 1..(stop - 1) : IsNew(j)}},
             changed |-> {devs[i].key : i \in {j \in 1..(stop - 1) : IsChanged(j)}},
             removed |-> IF Bad # {} THEN {}
                         ELSE {<<k, names[k]>> : k \in DOMAIN prev \ Keys(devs)},
             raised |-> Bad # {}]

\* devices_by_type without the pre-initialised entries: a type appears when a
\* device is filed under it
DevicesByTypeNoPreinit(devs) ==
    LET Used == {t \in PlatformTypes :
                    \E i \in 1..Len(devs) :
                        GetHaDeviceType(devs[i].type, devs[i].subtype) = t}
    IN [t \in Used |->
          LET Idx == {i \in 1..Len(devs) :
                         GetHaDeviceType(devs[i].type, devs[i].subtype) = t}
              Ids == {devs[i].id : i \in Idx}
          IN [id \in Ids |->
                 devs[CHOOSE i \in Idx : /\ devs[i].id = id
                                         /\ \A j \in Idx : devs[j].id = id => j <= i].key]]

\* lines 219-232 of poll_devices: devices_by_type, every supported type
\* pre-initialised; an entry is a reference (the key) to the table's record,
\* and a later device with the same type and id overwrites an earlier one
DevicesByType(devs) ==
    [t \in PlatformTypes |->
        LET Idx == {i \in 1..Len(devs) :
                       GetHaDeviceType(devs[i].type, devs[i].subtype) = t}
            Ids == {devs[i].id : i \in Idx}
        IN [id \in Ids |->
               devs[CHOOSE i \in Idx : /\ devs[i].id = id
                                       /\ \A j \in Idx : devs[j].id = id => j <= i].key]]

\* the part of poll_devices after asyncio.gather returned: merge of the three
\* collections, change detection, grouping.  raised: an exception other than
\* CrestronApiError left poll_devices
PollAfterGather(cfg, devs, prev, names, devices_data, sensors_data, thermostats_data, now) ==
    LET st0 == [devs |-> devs, raised |-> FALSE]
        st1 == ProcessDevices(cfg, st0, devices_data, now)
        st2 == ProcessSensors(cfg, st1, sensors_data, now)
        st3 == IF thermostats_data # <<>>
               THEN ProcessThermostats(cfg, st2, thermostats_data, now)
               ELSE st2
        cd == ChangeDetection(st3.devs, prev, names)
    IN IF st3.raised
       THEN [devs |-> st3.devs, raised |-> TRUE, log |-> [cd EXCEPT !.ran = FALSE,
                 !.discovered = {}, !.changed = {}, !.removed = {}, !.raised = FALSE],
             result |-> <<>>]
       ELSE [devs |-> st3.devs, raised |-> cd.raised, log |-> cd,
             result |-> IF cd.raised THEN <<>> ELSE DevicesByType(st3.devs)]

\* ------------------------------------------------------------- __init__.py
\* DEVICE_TYPE_TO_PLATFORM (const.py)
DEVICE_TYPE_TO_PLATFORM(dt) ==
    CASE dt = DEVICE_TYPE_LIGHT -> "light"
      [] dt = DEVICE_TYPE_SHADE -> "cover"
      [] dt = DEVICE_TYPE_SCENE -> "scene"
      [] dt = DEVICE_TYPE_BINARY_SENSOR -> "binary_sensor"
      [] dt = DEVICE_TYPE_SENSOR -> "sensor"
      [] dt = DEVICE_TYPE_THERMOSTAT -> "climate"

\* _platforms_for_device_types(device_types)
PlatformsForDeviceTypes(device_types) ==
    {DEVICE_TYPE_TO_PLATFORM(dt) : dt \in device_types \cap PlatformTypes}

\* async_setup_entry assigning hass.data[DOMAIN][entry_id] before the first
\* refresh
AsyncSetupEntryRegistersFirst(first_refresh_ok, enabled) ==
    IF first_refresh_ok
    THEN [setup |-> "loaded", registered |-> TRUE,
          platforms |-> PlatformsForDeviceTypes(enabled)]
    ELSE [setup |-> "not_ready", registered |-> TRUE, platforms |-> {}]

\* async_setup_entry around and after the first refresh: an exception of the
\* first refresh leaves the function before hass.data[DOMAIN][entry_id] is
\* assigned and before the platforms are forwarded
AsyncSetupEntry(first_refresh_ok, enabled) ==
    IF first_refresh_ok
    THEN [setup |-> "loaded", registered |-> TRUE,
          platforms |-> PlatformsForDeviceTypes(enabled)]
    ELSE [setup |-> "not_ready", registered |-> FALSE, platforms |-> {}]

\* ------------------------------------------------ the hub, as the API client
\* returns it: raw payloads of /devices, /sensors and /thermostats
RawDevice(id, name, type, status, level, position, conn) ==
    [id |-> id, name |-> name, type |-> type, subType |-> <<>>,
     status |-> status, level |-> level, position |-> position,
     connectionStatus |-> conn, roomId |-> 1, roomName |-> <<"K">>]

RawSensor(id, name, subType, conn, presence) ==
    [id |-> id, name |-> name, subType |-> subType, connectionStatus |-> conn,
     roomId |-> 1, presence |-> presence, door_status |-> Absent,
     battery_level |-> Absent, level |-> 0]

RawThermostat(id, name, conn) ==
    [id |-> id, name |-> name, connectionStatus |-> conn, roomId |-> 1]

\* raw entries of /devices
DimmerOff == RawDevice(1, <<"L">>, Dimmer, FALSE, 0, 0, "online")
DimmerOn == RawDevice(1, <<"L">>, Dimmer, TRUE, 9, 0, "offline")
DeviceNoId == RawDevice(NoId, <<"X">>, Dimmer, TRUE, 9, 0, "online")
DeviceNullName == RawDevice(4, NoneStr, Shade, FALSE, 0, 4, "offline")
ShadeB == RawDevice(2, <<"B">>, Shade, FALSE, 0, 4, "offline")
SceneS == RawDevice(3, <<"S">>, Scene, FALSE, 0, 0, "offline")
SceneOnline == RawDevice(3, <<"S">>, Scene, FALSE, 0, 0, "online")

\* raw entries of /sensors
Occupied == RawSensor(1, <<"O">>, OccupancySensor, "online", "Occupied")
OccupancyBare == RawSensor(1, <<"O">>, OccupancySensor, Absent, Absent)
SensorNoId == RawSensor(NoId, <<"Y">>, OccupancySensor, "online", "Vacant")

\* raw entries of /thermostats
ThermostatT == RawThermostat(1, <<"T">>, "online")
ThermostatNullName == RawThermostat(2, NoneStr, "offline")
ThermostatNoId == RawThermostat(NoId, <<"Z">>, "online")

\* what one poll can receive from the hub
HubResponses ==
    { [devices |-> <<>>, sensors |-> <<>>, thermostats |-> <<>>],
      [devices |-> <<DimmerOff>>, sensors |-> <<>>, thermostats |-> <<>>],
      [devices |-> <<DimmerOn>>, sensors |-> <<>>, thermostats |-> <<>>],
      [devices |-> <<DimmerOff, DeviceNoId, ShadeB>>,
       sensors |-> <<SensorNoId, Occupied>>,
       thermostats |-> <<ThermostatNoId, ThermostatT>>],
      [devices |-> <<DimmerOn, DeviceNullName, ShadeB>>, sensors |-> <<>>,
       thermostats |-> <<>>],
      [devices |-> <<DimmerOff>>, sensors |-> <<>>,
       thermostats |-> <<ThermostatNullName, ThermostatT>>],
      [devices |-> <<SceneS, ShadeB>>, sensors |-> <<OccupancyBare>>,
       thermostats |-> <<>>],
      [devices |-> <<SceneOnline>>, sensors |-> <<>>, thermostats |-> <<>>] }

\* thermostats_data is [] when the thermostat fetch is not issued
Responses(withThermostats) ==
    IF withThermostats THEN HubResponses
    ELSE {[r EXCEPT !.thermostats = <<>>] : r \in HubResponses}

\* the configurations of the config entry: enabled_device_types and
\* ignored_device_names
Configs ==
    { [enabled |-> PlatformTypes, ignored |-> <<>>],
      [enabled |-> {DEVICE_TYPE_LIGHT},
        ignored |-> << <<"%","b","%">> >>] }

\* ------------------------------------------------------------------- state
VARIABLES
    cfg,                  \* enabled_device_types, ignored_device_names
    devices,              \* CrestronDeviceManager.devices, in insertion order
    prev_snapshot,        \* poll_devices' local prev_snapshot while it awaits
    prev_names,           \* poll_devices' local prev_names while it awaits
    pc,                   \* "idle", or "fetching" inside asyncio.gather
    clock,                \* number of polls started (datetime.now())
    data,                 \* coordinator.data, <<>> before the first publish
    last_update_success,  \* coordinator.last_update_success
    setup,                \* async_setup_entry: "init", "loaded", "not_ready"
    registered,           \* entry_id in hass.data[DOMAIN]
    platforms,            \* platforms forwarded to the config entry
    log,                  \* change-detection records of the last poll
    last,                 \* how the last refresh ended, and on what response
    coros,                \* poll_devices' local coros: the collections requested
    data_built,           \* identity of the published map: the poll that built it
    fn,                   \* the pure function under evaluation, "none" if none
    arg,                  \* its arguments
    out,                  \* [done, raised, value]: its outcome
    ekind,                \* the entity under command: its class, "none" if none
    now,                  \* loop.time() / time.monotonic(), in ticks of 50 ms
    local,                \* the entity object: device, the key of the table
                          \* record it holds as _crestron_device (_device in
                          \* cover.py and climate.py), and _last_command_time
    timers,               \* every loop.call_later handle _debounce_command made
    pending,              \* _pending_debounce: index in timers, 0 for None
    events                \* commands, state writes, network calls, in order

\* the variables of an evaluation of a pure function
fnvars == <<fn, arg, out>>

\* the variables of an entity and its commands
entvars == <<ekind, now, local, timers, pending, events>>

\* the variables the poll and the refresh do not touch
nonpoll == <<fnvars, entvars>>

vars == <<cfg, devices, prev_snapshot, prev_names, pc, clock, data,
          last_update_success, setup, registered, platforms, log, last,
          coros, data_built, fn, arg, out,
          ekind, now, local, timers, pending, events>>

\* no entity is under command
EntIdle ==
    /\ ekind = "none"
    /\ now = 0
    /\ local = [device |-> <<>>, last_command_time |-> 0]
    /\ timers = <<>>
    /\ pending = 0
    /\ events = <<>>

NoLog == [ran |-> FALSE, discovered |-> {}, changed |-> {}, removed |-> {},
          raised |-> FALSE]
NoFetch == [devices |-> "none", sensors |-> "none", thermostats |-> "none"]
NoResponse == [devices |-> <<>>, sensors |-> <<>>, thermostats |-> <<>>]

Init ==
    /\ cfg \in Configs
    /\ devices = <<>>
    /\ prev_snapshot = <<>>
    /\ prev_names = <<>>
    /\ pc = "idle"
    /\ clock = 0
    /\ data = <<>>
    /\ last_update_success = TRUE
    /\ setup = "init"
    /\ registered = FALSE
    /\ platforms = {}
    /\ log = NoLog
    /\ last = [result |-> "none", fetch |-> NoFetch, response |-> NoResponse]
    /\ coros = {}
    /\ data_built = 0
    /\ fn = "none"
    /\ arg = <<>>
    /\ out = [done |-> FALSE, raised |-> FALSE, value |-> <<>>]
    /\ EntIdle

\* the refresh ended with an exception: the coordinator keeps its data; the
\* first refresh of async_setup_entry propagates it
RefreshFailed ==
    /\ pc' = "idle"
    /\ prev_snapshot' = <<>>
    /\ prev_names' = <<>>
    /\ data' = data
    /\ data_built' = data_built
    /\ last_update_success' = FALSE
    /\ IF setup = "init"
       THEN LET r == AsyncSetupEntry(FALSE, cfg.enabled)
            IN setup' = r.setup /\ registered' = r.registered
               /\ platforms' = r.platforms
       ELSE UNCHANGED <<setup, registered, platforms>>

\* the refresh returned a snapshot: the coordinator publishes it
RefreshSucceeded(snapshot) ==
    /\ pc' = "idle"
    /\ prev_snapshot' = <<>>
    /\ prev_names' = <<>>
    /\ data' = snapshot
    /\ last_update_success' = TRUE
    /\ IF setup = "init"
       THEN LET r == AsyncSetupEntry(TRUE, cfg.enabled)
            IN setup' = r.setup /\ registered' = r.registered
               /\ platforms' = r.platforms
       ELSE UNCHANGED <<setup, registered, platforms>>

\* a poll that asks for the thermostats whatever the configuration
FetchThermostatsAlways == TRUE

\* fetch_thermostats of poll_devices
FetchThermostats == DEVICE_TYPE_THERMOSTAT \in cfg.enabled

CanRefresh == pc = "idle" /\ setup \in {"init", "loaded"} /\ clock < MaxPolls

\* poll_devices up to asyncio.gather, at time t: prev_snapshot and
\* prev_names are taken
PollTakes(t) ==
    /\ \A i \in 1..Len(devices) : ~FullNameRaises(devices[i])
    /\ pc' = "fetching"
    /\ clock' = t
    /\ prev_snapshot' = [k \in Keys(devices) |->
                            DeviceSnapshotTuple(DeviceAt(devices, k))]
    /\ prev_names' = [k \in Keys(devices) |-> full_name(DeviceAt(devices, k))]
    /\ coros' = {"devices", "sensors"}
                    \cup (IF FetchThermostats THEN {"thermostats"} ELSE {})
    /\ UNCHANGED <<cfg, devices, data, last_update_success, setup, registered,
                   platforms, log, last, data_built>>

\* the next refresh begins
PollBegins == CanRefresh /\ PollTakes(clock + 1)

\* a refresh begins while no entity acts
PollStart == PollBegins /\ UNCHANGED nonpoll

\* poll_devices, line 166: full_name of a table device with a None name
\* raises before anything is fetched
PollStartRaises ==
    /\ CanRefresh
    /\ \E i \in 1..Len(devices) : FullNameRaises(devices[i])
    /\ clock' = clock + 1
    /\ RefreshFailed
    /\ last' = [result |-> "raised", fetch |-> NoFetch, response |-> NoResponse]
    /\ UNCHANGED <<cfg, devices, log, coros>>
    /\ UNCHANGED nonpoll

\* asyncio.gather raises the CrestronApiError of one fetch; the other fetches
\* had returned or were still pending
GatherRaises ==
    /\ pc = "fetching"
    /\ \E failed \in coros :
       \E others \in [{"devices", "sensors", "thermostats"} -> {"ok", "pending"}] :
          last' = [result |-> "fetch_failed",
                   fetch |-> [c \in {"devices", "sensors", "thermostats"} |->
                                 IF c = failed THEN "failed"
                                 ELSE IF c \notin coros
                                 THEN "none" ELSE others[c]],
                   response |-> NoResponse]
    /\ RefreshFailed
    /\ UNCHANGED <<cfg, devices, clock, log, coros>>

\* a poll that merges each collection as its fetch returns: the /devices
\* list is in the table when a later fetch fails
FetchFailsAfterPartialMerge ==
    /\ pc = "fetching"
    /\ \E failed \in coros :
       \E others \in [{"devices", "sensors", "thermostats"} -> {"ok", "pending"}] :
       \E resp \in Responses("thermostats" \in coros) :
          /\ last' = [result |-> "fetch_failed",
                      fetch |-> [c \in {"devices", "sensors", "thermostats"} |->
                                    IF c = failed THEN "failed"
                                    ELSE IF c \notin coros
                                    THEN "none" ELSE others[c]],
                      response |-> NoResponse]
          /\ devices' = IF failed # "devices" /\ others["devices"] = "ok"
                        THEN ProcessDevices(cfg, [devs |-> devices, raised |-> FALSE],
                                            resp.devices, clock).devs
                        ELSE devices
    /\ RefreshFailed
    /\ UNCHANGED <<cfg, clock, log, coros>>
    /\ UNCHANGED nonpoll

\* a fetch fails while no entity acts
FetchFails == GatherRaises /\ UNCHANGED nonpoll

AllOk == [c \in {"devices", "sensors", "thermostats"} |->
             IF c \in coros THEN "ok" ELSE "none"]

\* asyncio.gather returned; the collections are merged and the snapshot is
\* returned and published
PollSucceeds ==
    /\ pc = "fetching"
    /\ \E resp \in Responses("thermostats" \in coros) :
          LET r == PollAfterGather(cfg, devices, prev_snapshot, prev_names,
                       resp.devices, resp.sensors, resp.thermostats, clock)
          IN /\ ~r.raised
             /\ devices' = r.devs
             /\ log' = r.log
             /\ last' = [result |-> "ok", fetch |-> AllOk, response |-> resp]
             /\ RefreshSucceeded(r.result)
    /\ data_built' = clock
    /\ UNCHANGED <<cfg, clock, coros>>
    /\ UNCHANGED nonpoll

\* asyncio.gather returned; an exception left the merge or the change
\* detection, after the table was modified
PollRaises ==
    /\ pc = "fetching"
    /\ \E resp \in Responses("thermostats" \in coros) :
          LET r == PollAfterGather(cfg, devices, prev_snapshot, prev_names,
                       resp.devices, resp.sensors, resp.thermostats, clock)
          IN /\ r.raised
             /\ devices' = r.devs
             /\ log' = r.log
             /\ last' = [result |-> "raised", fetch |-> AllOk, response |-> resp]
             /\ RefreshFailed
    /\ UNCHANGED <<cfg, clock, coros>>
    /\ UNCHANGED nonpoll

Next ==
    \/ PollStart
    \/ PollStartRaises
    \/ FetchFails
    \/ PollSucceeds
    \/ PollRaises

Spec == Init /\ [][Next]_vars

\* ------------------------------------------ ids shared between namespaces
\* an entry of /devices for the thermostat that /thermostats lists with the
\* same id, and one for the occupancy sensor that /sensors lists
DeviceThermostat == RawDevice(1, <<"T">>, Thermostat, FALSE, 0, 0, "online")
DeviceOccupancy == RawDevice(1, <<"O">>, OccupancySensor, FALSE, 0, 0, "online")

\* what the hub answers: id 1 in the three collections with three types, or
\* with one type in two of them
SharedIdResponses ==
    { [devices |-> <<DimmerOff>>, sensors |-> <<Occupied>>,
       thermostats |-> <<ThermostatT>>],
      [devices |-> <<DimmerOn, ShadeB>>, sensors |-> <<OccupancyBare>>,
       thermostats |-> <<ThermostatT>>],
      [devices |-> <<DeviceThermostat>>, sensors |-> <<>>,
       thermostats |-> <<ThermostatT>>],
      [devices |-> <<DeviceOccupancy>>, sensors |-> <<Occupied>>,
       thermostats |-> <<>>] }

\* asyncio.gather returned; the collections are merged and the snapshot is
\* returned and published
SharedIdPollSucceeds ==
    /\ pc = "fetching"
    /\ \E resp \in SharedIdResponses :
          LET r == PollAfterGather(cfg, devices, prev_snapshot, prev_names,
                       resp.devices, resp.sensors,
                       IF "thermostats" \in coros THEN resp.thermostats ELSE <<>>,
                       clock)
          IN /\ ~r.raised
             /\ devices' = r.devs
             /\ log' = r.log
             /\ last' = [result |-> "ok", fetch |-> AllOk, response |-> resp]
             /\ RefreshSucceeded(r.result)
    /\ data_built' = clock
    /\ UNCHANGED <<cfg, clock, coros>>
    /\ UNCHANGED nonpoll

SharedIdNext ==
    \/ PollStart
    \/ FetchFails
    \/ SharedIdPollSucceeds

SpecSharedId == Init /\ [][SharedIdNext]_vars


\* --------------------------------------- payloads that change between polls
\* the entry of /devices with id 1 under another name and type, in another
\* room, and an entry whose id is 0
DeviceMoved == [RawDevice(1, <<"M">>, Shade, TRUE, 9, 4, "online") EXCEPT !.roomId = 2, !.roomName = <<"H">>]
DeviceZero == RawDevice(0, <<"Z">>, Dimmer, TRUE, 9, 0, "online")

\* door sensors, open and without a door status; the entry of /sensors with
\* id 1 under another name and type, in another room; an entry whose id is 0
DoorOpen == [RawSensor(2, <<"D">>, DoorSensor, "online", Absent) EXCEPT !.door_status = "Open"]
DoorBare == RawSensor(2, <<"D">>, DoorSensor, "online", Absent)
Vacant == RawSensor(1, <<"O">>, OccupancySensor, "online", "Vacant")
SensorMoved == [RawSensor(1, <<"P">>, DoorSensor, "online", Absent) EXCEPT !.roomId = 2, !.door_status = "Open"]
SensorZero == RawSensor(0, <<"Y">>, DoorSensor, "online", Absent)

ThermostatZero == RawThermostat(0, <<"Z">>, "online")

PayloadResponses ==
    { [devices |-> <<DimmerOff>>, sensors |-> <<Occupied, DoorOpen>>,
       thermostats |-> <<ThermostatT>>],
      [devices |-> <<DeviceMoved>>, sensors |-> <<SensorMoved>>,
       thermostats |-> <<ThermostatT>>],
      [devices |-> <<DimmerOn>>, sensors |-> <<Vacant, DoorBare>>,
       thermostats |-> <<>>],
      [devices |-> <<DeviceZero, ShadeB>>, sensors |-> <<SensorZero, OccupancyBare>>,
       thermostats |-> <<ThermostatZero>>] }

\* asyncio.gather returned; the collections are merged and the snapshot is
\* returned and published
PayloadPollSucceeds ==
    /\ pc = "fetching"
    /\ \E resp \in PayloadResponses :
          LET r == PollAfterGather(cfg, devices, prev_snapshot, prev_names,
                       resp.devices, resp.sensors,
                       IF "thermostats" \in coros THEN resp.thermostats ELSE <<>>,
                       clock)
          IN /\ ~r.raised
             /\ devices' = r.devs
             /\ log' = r.log
             /\ last' = [result |-> "ok", fetch |-> AllOk, response |-> resp]
             /\ RefreshSucceeded(r.result)
    /\ data_built' = clock
    /\ UNCHANGED <<cfg, clock, coros>>
    /\ UNCHANGED nonpoll

PayloadNext ==
    \/ PollStart
    \/ FetchFails
    \/ PayloadPollSucceeds

SpecPayload == Init /\ [][PayloadNext]_vars

\* ------------------------------------------- evaluation of the pure functions
\* the hub type and subtype strings offered to _get_ha_device_type: the keys
\* of the mapping, an unknown type, and the empty string (also standing for
\* None, which the code treats alike)
Fan == <<"F","a","n">>
TypeNames == {Dimmer, Switch, Shade, Scene, OccupancySensor, DoorSensor,
              PhotoSensor, Thermostat, Fan, <<>>}

\* full names offered to _matches_ignored_pattern
NameGuestBathroom == <<"G", "u", "e", "s", "t", " ", "B", "a", "t", "h", "r", "o", "o", "m">>
NameBathroom == <<"B", "a", "t", "h", "r", "o", "o", "m">>
NameLivingRoom == <<"L", "i", "v", "i", "n", "g", " ", "R", "o", "o", "m">>
NameRoomyHall == <<"R", "o", "o", "m", "y", " ", "H", "a", "l", "l">>
NameBathroomLight == <<"B", "a", "t", "h", "r", "o", "o", "m", " ", "L", "i", "g", "h", "t">>
NameHallBathroom == <<"H", "a", "l", "l", " ", "B", "a", "t", "h", "r", "o", "o", "m">>
NameBathHouse == <<"B", "a", "t", "h", " ", "H", "o", "u", "s", "e">>
NameBathLower == <<"b", "a", "t", "h">>
NameEmpty == <<>>
MatcherNames == {NameGuestBathroom, NameBathroom, NameLivingRoom, NameRoomyHall, NameBathroomLight, NameHallBathroom, NameBathHouse, NameBathLower, NameEmpty}

\* ignored_device_names entries
PatContainsBath == <<"%", "b", "a", "t", "h", "%">>
PatPrefixBath == <<"b", "a", "t", "h", "%">>
PatSuffixRoom == <<"%", "r", "o", "o", "m">>
PatExactBathroom == <<"b", "a", "t", "h", "r", "o", "o", "m">>
PatContainsBathUpper == <<"%", "B", "A", "T", "H", "%">>
PatPercent == <<"%">>
PatExactDimmer == <<"d", "i", "m", "m", "e", "r">>
PatSuffixSensor == <<"%", "s", "e", "n", "s", "o", "r">>
PatPrefixShade == <<"s", "h", "a", "d", "e", "%">>
Patterns == {PatContainsBath, PatPrefixBath, PatSuffixRoom, PatExactBathroom, PatContainsBathUpper, PatPercent, PatExactDimmer, PatSuffixSensor, PatPrefixShade}

\* ignored_device_names: no pattern, one pattern, or two
IgnoredLists ==
    {<<>>} \cup {<<p>> : p \in Patterns}
           \cup {<<p, q>> : p \in {PatExactBathroom, PatSuffixRoom}, q \in Patterns}

MatcherTypes == {Dimmer, Shade, OccupancySensor}

\* rooms and names offered to full_name
FullNameRooms == {<<>>, <<"K">>, <<"K","i","t">>, <<" ","K">>}
FullNameNames ==
    {<<>>, <<"L">>, <<" ","L"," ">>, <<"K","i","t"," ","L">>,
     <<"k","I","T"," ","L"," ">>, <<"K">>, <<"K","L">>, <<"L"," ","K","i","t">>,
     NoneStr}

Pending == [done |-> FALSE, raised |-> FALSE, value |-> <<>>]

TypeArgs == [device_type : TypeNames, subtype : TypeNames]
MatcherArgs == [ignored : IgnoredLists, name : MatcherNames, device_type : MatcherTypes]
FullNameArgs == [room : FullNameRooms, name : FullNameNames]

\* the arguments of one call of one of the three functions; the poll is idle
\* the manager and the coordinator as constructed, all types enabled
PollIdle ==
    /\ cfg = [enabled |-> PlatformTypes, ignored |-> <<>>]
    /\ devices = <<>>
    /\ prev_snapshot = <<>>
    /\ prev_names = <<>>
    /\ pc = "idle"
    /\ clock = 0
    /\ data = <<>>
    /\ last_update_success = TRUE
    /\ setup = "init"
    /\ registered = FALSE
    /\ platforms = {}
    /\ log = NoLog
    /\ last = [result |-> "none", fetch |-> NoFetch, response |-> NoResponse]
    /\ coros = {}
    /\ data_built = 0

FnInit ==
    /\ PollIdle
    /\ out = Pending
    /\ EntIdle
    /\ \/ fn = "_get_ha_device_type" /\ arg \in TypeArgs
       \/ fn = "_matches_ignored_pattern" /\ arg \in MatcherArgs
       \/ fn = "full_name" /\ arg \in FullNameArgs

pollvars == <<cfg, devices, prev_snapshot, prev_names, pc, clock, data,
              last_update_success, setup, registered, platforms, log, last,
              coros, data_built>>

\* the variables of the manager and the coordinator but the device table
coordvars == <<cfg, prev_snapshot, prev_names, pc, clock, data,
               last_update_success, setup, registered, platforms, log, last,
               coros, data_built>>

\* self._get_ha_device_type(device_type, subtype)
CallGetHaDeviceType ==
    /\ fn = "_get_ha_device_type" /\ ~out.done
    /\ out' = [done |-> TRUE, raised |-> FALSE,
               value |-> GetHaDeviceType(arg.device_type, arg.subtype)]
    /\ UNCHANGED <<pollvars, fn, arg, entvars>>

\* self._matches_ignored_pattern(name, device_type)
CallMatchesIgnoredPattern ==
    /\ fn = "_matches_ignored_pattern" /\ ~out.done
    /\ out' = [done |-> TRUE, raised |-> FALSE,
               value |-> MatchesIgnoredPattern(arg.ignored, arg.name, arg.device_type)]
    /\ UNCHANGED <<pollvars, fn, arg, entvars>>

\* device.full_name
CallFullName ==
    /\ fn = "full_name" /\ ~out.done
    /\ out' = IF FullNameRaises(arg)
              THEN [done |-> TRUE, raised |-> TRUE, value |-> <<>>]
              ELSE [done |-> TRUE, raised |-> FALSE, value |-> full_name(arg)]
    /\ UNCHANGED <<pollvars, fn, arg, entvars>>

FnNext == CallGetHaDeviceType \/ CallMatchesIgnoredPattern \/ CallFullName

SpecFn == FnInit /\ [][FnNext]_vars

\* ------------------------------------------- unloading and reloading an entry
\* hass.data[DOMAIN] without the entry
NoCoordinator == [id |-> 0, enabled_device_types |-> {}, update_interval |-> 0]

\* CrestronHomeDataUpdateCoordinator(hass, client, update_interval,
\* enabled_device_types, ...) as async_setup_entry builds it from entry.data;
\* n tells the objects apart
Coordinator(n, entry_data) ==
    [id |-> n, enabled_device_types |-> entry_data.enabled_device_types,
     update_interval |-> entry_data.update_interval]

\* {**entry.data, **entry.options}
MergedData(entry_data, entry_options) ==
    [k \in DOMAIN entry_data |->
        IF k \in DOMAIN entry_options THEN entry_options[k] ELSE entry_data[k]]

\* platform_override=None
NoOverride == [given |-> FALSE, platforms |-> {}]

\* async_unload_entry(hass, entry, platform_override); unload_ok is what
\* hass.config_entries.async_unload_platforms answers
AsyncUnloadEntry(hs, platform_override, unload_ok) ==
    LET enabled_platforms ==
            IF platform_override.given THEN platform_override.platforms
            ELSE PlatformsForDeviceTypes(hs.entry_data.enabled_device_types)
    IN [ok |-> unload_ok,
        hs |-> IF unload_ok
               THEN [hs EXCEPT !.hass_data = NoCoordinator,
                               !.loaded = @ \ enabled_platforms]
               ELSE hs]

\* _async_clean_entity_registry that removes nothing
AsyncCleanEntityRegistryKeepsAll(hs, disabled_device_types) == hs

\* _async_clean_entity_registry(hass, entry, disabled_device_types); the
\* entity registry is the set of the domains in which the entry has entities
AsyncCleanEntityRegistry(hs, disabled_device_types) ==
    [hs EXCEPT !.entities = @ \ PlatformsForDeviceTypes(disabled_device_types)]

\* async_setup_entry on the entry as it is: the coordinator is built from
\* entry.data, registered after its first refresh, and the platforms of the
\* enabled types are forwarded and add their entities
SetupEntryOn(hs, first_refresh_ok) ==
    LET r == AsyncSetupEntry(first_refresh_ok, hs.entry_data.enabled_device_types)
    IN [raised |-> r.setup = "not_ready",
        hs |-> IF r.registered
               THEN [hs EXCEPT !.hass_data = Coordinator(hs.made + 1, hs.entry_data),
                               !.made = @ + 1,
                               !.loaded = @ \cup r.platforms,
                               !.entities = @ \cup r.platforms]
               ELSE [hs EXCEPT !.made = @ + 1]]

\* async_reload_entry(hass, entry)
AsyncReloadEntry(hs, unload_ok, first_refresh_ok) ==
    LET old_enabled_types == hs.entry_data.enabled_device_types
    IN IF DOMAIN hs.entry_options = {}
       THEN SetupEntryOn(AsyncUnloadEntry(hs, NoOverride, unload_ok).hs,
                         first_refresh_ok)
       ELSE LET new_enabled_types ==
                    MergedData(hs.entry_data, hs.entry_options).enabled_device_types
                disabled_types == old_enabled_types \ new_enabled_types
                cleaned == IF disabled_types # {}
                           THEN AsyncCleanEntityRegistry(hs, disabled_types)
                           ELSE hs
                updated == [cleaned EXCEPT !.entry_data =
                               MergedData(hs.entry_data, hs.entry_options)]
                u == AsyncUnloadEntry(updated,
                         [given |-> TRUE,
                          platforms |-> PlatformsForDeviceTypes(old_enabled_types)],
                         unload_ok)
                forced == IF u.ok THEN u.hs
                          ELSE [u.hs EXCEPT !.hass_data = NoCoordinator]
            IN SetupEntryOn(forced, first_refresh_ok)

\* what the user has enabled, and the poll intervals in seconds
EnabledSets ==
    {{DEVICE_TYPE_LIGHT}, {DEVICE_TYPE_LIGHT, DEVICE_TYPE_SHADE},
     {DEVICE_TYPE_LIGHT, DEVICE_TYPE_THERMOSTAT}}
Intervals == {15, 30}

\* entry.options: empty, or what the options flow has stored
OptionSets ==
    {<<>>}
    \cup {[update_interval |-> i] : i \in Intervals}
    \cup {[enabled_device_types |-> e] : e \in EnabledSets}
    \cup {[enabled_device_types |-> e, update_interval |-> i] :
              e \in EnabledSets, i \in Intervals}

\* the entry after a successful async_setup_entry, with the options the user
\* has saved since: the first coordinator is registered, the platforms of
\* the enabled types are loaded and have, or have not, added entities
LoadedEntries ==
    {[entry_data |-> [enabled_device_types |-> e, update_interval |-> 15],
      entry_options |-> o,
      hass_data |-> Coordinator(1, [enabled_device_types |-> e, update_interval |-> 15]),
      loaded |-> PlatformsForDeviceTypes(e),
      entities |-> n,
      made |-> 1] :
        e \in EnabledSets, o \in OptionSets,
        n \in {{}, {"light"}, PlatformsForDeviceTypes(PlatformTypes)}}

EntryArgs == [hs : LoadedEntries, unload_ok : BOOLEAN, first_refresh_ok : BOOLEAN]

EntryInit ==
    /\ PollIdle
    /\ out = Pending
    /\ EntIdle
    /\ fn \in {"async_unload_entry", "async_reload_entry"}
    /\ arg \in EntryArgs

\* await async_unload_entry(hass, entry)
CallAsyncUnloadEntry ==
    /\ fn = "async_unload_entry" /\ ~out.done
    /\ out' = [done |-> TRUE, raised |-> FALSE,
               value |-> AsyncUnloadEntry(arg.hs, NoOverride, arg.unload_ok)]
    /\ UNCHANGED <<pollvars, fn, arg, entvars>>

\* the update listener of the entry: await async_reload_entry(hass, entry)
CallAsyncReloadEntry ==
    /\ fn = "async_reload_entry" /\ ~out.done
    /\ LET r == AsyncReloadEntry(arg.hs, arg.unload_ok, arg.first_refresh_ok)
       IN out' = [done |-> TRUE, raised |-> r.raised, value |-> r]
    /\ UNCHANGED <<pollvars, fn, arg, entvars>>

EntryNext == CallAsyncUnloadEntry \/ CallAsyncReloadEntry

SpecEntry == EntryInit /\ [][EntryNext]_vars

\* ------------------------------------------------- entities and their commands
\* entity.py COMMAND_DEBOUNCE_SECONDS (0.2 s) in ticks of 50 ms
COMMAND_DEBOUNCE_SECONDS == 4

\* const.py CRESTRON_MAX_LEVEL, what percentage_to_crestron(100) gives
CRESTRON_MAX_LEVEL == 65535

\* the entity classes that send commands: CrestronHomeDimmer (light.py),
\* CrestronHomeShade (cover.py), CrestronHomeThermostat (climate.py)
EntityKinds == {"dimmer", "shade", "thermostat"}

\* hub levels, positions and setpoints a command can ask for, as
\* percentage_to_crestron returns them
Levels == {3, 7}

\* one record of the order of things: a command arriving, a state written
\* with async_write_ha_state, a network call issued, a refresh requested
Ev(ev, op, cmd, value, t) ==
    [ev |-> ev, op |-> op, cmd |-> cmd, value |-> value, at |-> t]

\* the record the entity holds: an object of the device table
EntityDevice == DeviceAt(devices, local.device)

\* self._crestron_device.level = level; self._crestron_device.status = status
WriteLevel(level, status) ==
    devices' = [devices EXCEPT ![IndexOf(devices, local.device)] =
                   [@ EXCEPT !.level = level, !.status = status]]

\* self._device.position = target
WritePosition(target) ==
    devices' = [devices EXCEPT ![IndexOf(devices, local.device)] =
                   [@ EXCEPT !.position = target]]

NumCommands == Cardinality({i \in 1..Len(events) : events[i].ev = "command"})

\* the entity has been removed from the platform
Removed == \E i \in 1..Len(events) : events[i].ev = "remove"

CanCommand(kind) == ekind = kind /\ NumCommands < MaxCommands /\ ~Removed

\* _debounce_command that leaves the handle of the previous call alone
DebounceCommandNoCancel(tm, pend, cmd, value, t) ==
    [timers |-> Append(tm, [cmd |-> cmd, value |-> value,
                            due |-> t + COMMAND_DEBOUNCE_SECONDS,
                            cancelled |-> FALSE, fired |-> FALSE]),
     pending |-> Len(tm) + 1]

\* _debounce_command that keeps the first handle in _pending_debounce
DebounceCommandKeepsFirstHandle(tm, pend, cmd, value, t) ==
    [timers |-> Append(IF pend # 0 /\ ~tm[pend].fired
                       THEN [tm EXCEPT ![pend].cancelled = TRUE]
                       ELSE tm,
                       [cmd |-> cmd, value |-> value,
                        due |-> t + COMMAND_DEBOUNCE_SECONDS,
                        cancelled |-> FALSE, fired |-> FALSE]),
     pending |-> IF pend # 0 THEN pend ELSE Len(tm) + 1]

\* _debounce_command(coro_factory, *args): cancel the pending handle, if any,
\* and schedule the call COMMAND_DEBOUNCE_SECONDS from now.  cancel() of a
\* handle that has run changes nothing the program reads: cancelled says
\* that the handle was cancelled before it ran
DebounceCommand(tm, pend, cmd, value, t) ==
    [timers |-> Append(IF pend # 0 /\ ~tm[pend].fired
                       THEN [tm EXCEPT ![pend].cancelled = TRUE]
                       ELSE tm,
                       [cmd |-> cmd, value |-> value,
                        due |-> t + COMMAND_DEBOUNCE_SECONDS,
                        cancelled |-> FALSE, fired |-> FALSE]),
     pending |-> Len(tm) + 1]

\* CrestronHomeDimmer.async_turn_on with ATTR_BRIGHTNESS: optimistic update,
\* state write, debounced network call
DimmerAsyncTurnOnBrightness ==
    /\ CanCommand("dimmer")
    /\ \E level \in Levels :
          LET cmd == NumCommands + 1
              d == DebounceCommand(timers, pending, cmd, level, now)
          IN /\ local' = [local EXCEPT !.last_command_time = now]
             /\ WriteLevel(level, TRUE)
             /\ events' = events \o
                   <<Ev("command", "set_brightness", cmd, level, now),
                     Ev("publish", "set_brightness", cmd, level, now)>>
             /\ timers' = d.timers
             /\ pending' = d.pending
    /\ UNCHANGED <<ekind, now, coordvars, fnvars>>

\* CrestronHomeDimmer.async_turn_on without ATTR_BRIGHTNESS (and
\* CrestronHomeBaseLight.async_turn_on): full level, immediate network call
LightAsyncTurnOn ==
    /\ CanCommand("dimmer")
    /\ LET cmd == NumCommands + 1
       IN /\ local' = [local EXCEPT !.last_command_time = now]
          /\ WriteLevel(CRESTRON_MAX_LEVEL, TRUE)
          /\ events' = events \o
                <<Ev("command", "turn_on", cmd, CRESTRON_MAX_LEVEL, now),
                  Ev("publish", "turn_on", cmd, CRESTRON_MAX_LEVEL, now),
                  Ev("call", "turn_on", cmd, CRESTRON_MAX_LEVEL, now)>>
    /\ UNCHANGED <<ekind, now, timers, pending, coordvars, fnvars>>

\* async_turn_off of the lights
LightAsyncTurnOff ==
    /\ CanCommand("dimmer")
    /\ LET cmd == NumCommands + 1
       IN /\ local' = [local EXCEPT !.last_command_time = now]
          /\ WriteLevel(0, FALSE)
          /\ events' = events \o
                <<Ev("command", "turn_off", cmd, 0, now),
                  Ev("publish", "turn_off", cmd, 0, now),
                  Ev("call", "turn_off", cmd, 0, now)>>
    /\ UNCHANGED <<ekind, now, timers, pending, coordvars, fnvars>>

\* a shade command: position written, state written, network call awaited,
\* refresh requested
ShadeCommand(op, target) ==
    LET cmd == NumCommands + 1
    IN /\ WritePosition(target)
       /\ events' = events \o
             <<Ev("command", op, cmd, target, now),
               Ev("publish", op, cmd, target, now),
               Ev("call", op, cmd, target, now),
               Ev("request_refresh", op, cmd, target, now)>>
       /\ UNCHANGED <<ekind, now, local, timers, pending, coordvars, fnvars>>

\* CrestronHomeShade.async_set_cover_position
ShadeAsyncSetCoverPosition ==
    /\ CanCommand("shade")
    /\ \E target \in Levels : ShadeCommand("set_position", target)

\* CrestronHomeShade.async_open_cover
ShadeAsyncOpenCover ==
    /\ CanCommand("shade")
    /\ ShadeCommand("open", CRESTRON_MAX_LEVEL)

\* CrestronHomeShade.async_close_cover
ShadeAsyncCloseCover ==
    /\ CanCommand("shade")
    /\ ShadeCommand("close", 0)

\* CrestronHomeShade.async_stop_cover: the position read from the hub, or
\* the local one, is sent back; nothing is written locally
ShadeAsyncStopCover ==
    /\ CanCommand("shade")
    /\ \E current_raw \in Levels \cup {EntityDevice.position} :
          LET cmd == NumCommands + 1
          IN /\ events' = events \o
                   <<Ev("command", "stop", cmd, current_raw, now),
                     Ev("call", "stop", cmd, current_raw, now),
                     Ev("request_refresh", "stop", cmd, current_raw, now)>>
    /\ UNCHANGED <<ekind, now, local, timers, pending, pollvars, fnvars>>

\* a thermostat command: the network call is awaited and a refresh is
\* requested; nothing is written locally
ThermostatCommand(op, value) ==
    LET cmd == NumCommands + 1
    IN /\ events' = events \o
             <<Ev("command", op, cmd, value, now),
               Ev("call", op, cmd, value, now),
               Ev("request_refresh", op, cmd, value, now)>>
       /\ UNCHANGED <<ekind, now, local, timers, pending, pollvars, fnvars>>

\* CrestronHomeThermostat.async_set_temperature
ThermostatAsyncSetTemperature ==
    /\ CanCommand("thermostat")
    /\ \E temp \in Levels : ThermostatCommand("set_temperature", temp)

\* CrestronHomeThermostat.async_set_hvac_mode
ThermostatAsyncSetHvacMode ==
    /\ CanCommand("thermostat")
    /\ \E mode \in {"Heat", "Off"} : ThermostatCommand("set_hvac_mode", mode)

\* a handle of loop.call_later is due and was not cancelled
Due(i) == ~timers[i].cancelled /\ ~timers[i].fired /\ timers[i].due <= now

\* the loop runs a due handle: the task of _fire is created and issues the
\* network call
TimerFires ==
    /\ \E i \in 1..Len(timers) :
          /\ Due(i)
          /\ timers' = [timers EXCEPT ![i].fired = TRUE]
          /\ events' = Append(events, Ev("call", "set_brightness", timers[i].cmd,
                                         timers[i].value, now))
    /\ UNCHANGED <<ekind, now, local, pending, pollvars, fnvars>>

\* 50 ms pass; the loop has run every handle that was due
Tick ==
    /\ ekind # "none"
    /\ now < MaxTime
    /\ \A i \in 1..Len(timers) : ~Due(i)
    /\ now' = now + 1
    /\ UNCHANGED <<ekind, local, timers, pending, events, pollvars, fnvars>>

\* raw entries of the hub for the device of the entity
ShadeClosed == RawDevice(2, <<"B">>, Shade, FALSE, 0, 0, "online")

\* what the first poll received: the one device the entity is made for
FirstResponse(kind) ==
    [devices |-> IF kind = "dimmer" THEN <<DimmerOff>>
                 ELSE IF kind = "shade" THEN <<ShadeClosed>> ELSE <<>>,
     sensors |-> <<>>,
     thermostats |-> IF kind = "thermostat" THEN <<ThermostatT>> ELSE <<>>]

\* the composite key of that device
FirstKey(kind) ==
    IF kind = "dimmer" THEN <<"device", 1>>
    ELSE IF kind = "shade" THEN <<"device", 2>> ELSE <<"thermostat", 1>>

\* async_setup_entry went through under configuration c: the first refresh
\* received resp, the snapshot is published and the platforms are forwarded
LoadedWith(c, resp) ==
    LET r == PollAfterGather(c, <<>>, <<>>, <<>>, resp.devices, resp.sensors,
                             resp.thermostats, 1)
        a == AsyncSetupEntry(TRUE, c.enabled)
    IN /\ cfg = c
       /\ devices = r.devs
       /\ prev_snapshot = <<>>
       /\ prev_names = <<>>
       /\ pc = "idle"
       /\ clock = 1
       /\ data = r.result
       /\ last_update_success = TRUE
       /\ setup = a.setup
       /\ registered = a.registered
       /\ platforms = a.platforms
       /\ log = r.log
       /\ last = [result |-> "ok",
                  fetch |-> [devices |-> "ok", sensors |-> "ok",
                             thermostats |-> "ok"],
                  response |-> resp]
       /\ coros = {"devices", "sensors", "thermostats"}
       /\ data_built = 1

\* the same with every type enabled and no name ignored
Loaded(resp) == LoadedWith([enabled |-> PlatformTypes, ignored |-> <<>>], resp)

\* one entity, made by its platform from the record of the first snapshot
\* and added; no command sent yet
EntInit ==
    /\ ekind \in EntityKinds
    /\ Loaded(FirstResponse(ekind))
    /\ fn = "none" /\ arg = <<>> /\ out = Pending
    /\ now = 0
    /\ local = [device |-> FirstKey(ekind), last_command_time |-> 0]
    /\ timers = <<>>
    /\ pending = 0
    /\ events = <<>>

EntNext ==
    \/ DimmerAsyncTurnOnBrightness
    \/ LightAsyncTurnOn
    \/ LightAsyncTurnOff
    \/ ShadeAsyncSetCoverPosition
    \/ ShadeAsyncOpenCover
    \/ ShadeAsyncCloseCover
    \/ ShadeAsyncStopCover
    \/ ThermostatAsyncSetTemperature
    \/ ThermostatAsyncSetHvacMode
    \/ TimerFires
    \/ Tick

SpecEntity == EntInit /\ [][EntNext]_vars

\* ------------------------------------------------- removal of an entity
\* the platform removes the entity: CrestronBaseEntity and its subclasses
\* define no async_will_remove_from_hass, so nothing of theirs runs and
\* _pending_debounce is left as it is
EntityRemoved ==
    /\ ekind # "none"
    /\ ~Removed
    /\ events' = Append(events, Ev("remove", "remove", 0, 0, now))
    /\ UNCHANGED <<ekind, now, local, timers, pending, pollvars, fnvars>>

\* a dimmer, made from the first snapshot and added
TeardownInit == EntInit /\ ekind = "dimmer"

TeardownNext ==
    \/ DimmerAsyncTurnOnBrightness
    \/ LightAsyncTurnOn
    \/ LightAsyncTurnOff
    \/ EntityRemoved
    \/ TimerFires
    \/ Tick

SpecTeardown == TeardownInit /\ [][TeardownNext]_vars

\* ------------------------------------------- network calls that can fail
\* _fire without its try/except: the exception of the call ends the task
FireUncaught(evs, call, ok) ==
    IF ok THEN Append(evs, call)
    ELSE evs \o <<call, [call EXCEPT !.ev = "task_exception"]>>

\* _fire: the call is awaited; an exception of it is caught and logged
Fire(evs, call, ok) ==
    IF ok THEN Append(evs, call)
    ELSE evs \o <<call, [call EXCEPT !.ev = "logged_exception"]>>

\* the loop runs a due handle: the task of _fire is created and issues the
\* network call, which the client completes or ends with an exception
TimerFiresCallEnds ==
    /\ \E i \in 1..Len(timers), ok \in BOOLEAN :
          /\ Due(i)
          /\ timers' = [timers EXCEPT ![i].fired = TRUE]
          /\ events' = Fire(events, Ev("call", "set_brightness", timers[i].cmd,
                                       timers[i].value, now), ok)
    /\ UNCHANGED <<ekind, now, local, pending, pollvars, fnvars>>

\* 50 ms pass; the loop has run every handle that was due
CallTick ==
    /\ now < MaxCallTime
    /\ \A i \in 1..Len(timers) : ~Due(i)
    /\ now' = now + 1
    /\ UNCHANGED <<ekind, local, timers, pending, events, pollvars, fnvars>>

FailureNext ==
    \/ DimmerAsyncTurnOnBrightness
    \/ TimerFiresCallEnds
    \/ CallTick

SpecFailure == TeardownInit /\ [][FailureNext]_vars

\* ------------------------------------- an entity, its commands and the polls
\* entity.py OPTIMISTIC_COOLDOWN (2.0 s) in ticks of 50 ms
OPTIMISTIC_COOLDOWN == 40

\* _supports_optimistic: True in CrestronHomeBaseLight; CrestronHomeShade and
\* CrestronHomeThermostat have a _handle_coordinator_update of their own
SupportsOptimistic == ekind = "dimmer"

\* _device_type_key of the entity's class
DeviceTypeKey ==
    IF ekind = "dimmer" THEN DEVICE_TYPE_LIGHT
    ELSE IF ekind = "shade" THEN DEVICE_TYPE_SHADE
    ELSE IF ekind = "scene" THEN DEVICE_TYPE_SCENE ELSE DEVICE_TYPE_THERMOSTAT

\* coordinator.data.get(type_key, {}).get(self._crestron_device.id): the key
\* of the record filed there, <<>> for None
SnapshotEntry(devs, snapshot, held) ==
    IF /\ DeviceTypeKey \in DOMAIN snapshot
       /\ DeviceAt(devs, held).id \in DOMAIN snapshot[DeviceTypeKey]
    THEN snapshot[DeviceTypeKey][DeviceAt(devs, held).id]
    ELSE <<>>

\* a _get_device() that answers an empty record when the snapshot has none
GetDeviceOrBlank(devs, snapshot, held) ==
    IF SnapshotEntry(devs, snapshot, held) # <<>>
    THEN DeviceAt(devs, SnapshotEntry(devs, snapshot, held))
    ELSE [DeviceAt(devs, held) EXCEPT !.level = 0, !.position = 0]

\* _get_device(): the record of the snapshot, else the one the entity holds
GetDevice(devs, snapshot, held) ==
    IF SnapshotEntry(devs, snapshot, held) # <<>>
    THEN DeviceAt(devs, SnapshotEntry(devs, snapshot, held))
    ELSE DeviceAt(devs, held)

\* what async_write_ha_state reads through the entity's properties: the
\* level of a light (is_on, brightness), the position of a shade
StateValue(devs, snapshot, held) ==
    IF ekind = "shade" THEN GetDevice(devs, snapshot, held).position
    ELSE GetDevice(devs, snapshot, held).level

\* _handle_coordinator_update with a cooldown that never ends
CoordinatorUpdateCooldownForEver(devs, snapshot, t) ==
    IF SupportsOptimistic /\ local.last_command_time > 0
    THEN [local |-> local, events |-> events]
    ELSE LET device == SnapshotEntry(devs, snapshot, local.device)
             held == IF device # <<>> THEN device ELSE local.device
         IN [local |-> [local EXCEPT !.device = held],
             events |-> Append(events,
                   Ev("publish", "update", 0, StateValue(devs, snapshot, held), t))]

\* _handle_coordinator_update, called by the coordinator with the snapshot
\* it has just published
CoordinatorUpdate(devs, snapshot, t) ==
    IF SupportsOptimistic /\ t - local.last_command_time < OPTIMISTIC_COOLDOWN
    THEN [local |-> local, events |-> events]
    ELSE LET device == SnapshotEntry(devs, snapshot, local.device)
             held == IF device # <<>> THEN device ELSE local.device
         IN [local |-> [local EXCEPT !.device = held],
             events |-> Append(events,
                   Ev("publish", "update", 0, StateValue(devs, snapshot, held), t))]

\* the listener call as a step of the entity
HandleCoordinatorUpdate(devs, snapshot, t) ==
    /\ local' = CoordinatorUpdate(devs, snapshot, t).local
    /\ events' = CoordinatorUpdate(devs, snapshot, t).events

\* the level or position the hub reports for the device of the entity, one
\* that no command asks for
HubLevels == {5}

\* what a later poll can receive: the device of the entity with a level or
\* a position of the hub's, or no device
LiveResponses ==
    { [devices |-> <<>>, sensors |-> <<>>, thermostats |-> <<>>] }
    \cup { [devices |-> << IF ekind = "shade"
                           THEN RawDevice(2, <<"B">>, Shade, FALSE, 0, h, "online")
                           ELSE RawDevice(1, <<"L">>, Dimmer, h > 0, h, 0, "online") >>,
            sensors |-> <<>>, thermostats |-> <<>>] : h \in HubLevels }

\* asyncio.gather returned; the collections are merged, the snapshot is
\* returned and published, and the coordinator calls the entity's listener
LivePollSucceeds ==
    /\ pc = "fetching"
    /\ \E resp \in LiveResponses :
          LET r == PollAfterGather(cfg, devices, prev_snapshot, prev_names,
                       resp.devices, resp.sensors, resp.thermostats, clock)
          IN /\ ~r.raised
             /\ devices' = r.devs
             /\ log' = r.log
             /\ last' = [result |-> "ok", fetch |-> AllOk, response |-> resp]
             /\ RefreshSucceeded(r.result)
             /\ HandleCoordinatorUpdate(r.devs, r.result, now)
    /\ data_built' = clock
    /\ UNCHANGED <<cfg, clock, coros, fnvars, ekind, now, timers, pending>>

\* a command of the light or of the shade that is sent at once
LiveCommand ==
    /\ NumCommands < MaxLiveCommands
    /\ \/ LightAsyncTurnOn
       \/ LightAsyncTurnOff
       \/ ShadeAsyncSetCoverPosition
       \/ ShadeAsyncOpenCover
       \/ ShadeAsyncCloseCover
       \/ ShadeAsyncStopCover

\* half an OPTIMISTIC_COOLDOWN passes
LiveTick ==
    /\ now + OPTIMISTIC_COOLDOWN \div 2 <= MaxLiveTime
    /\ now' = now + OPTIMISTIC_COOLDOWN \div 2
    /\ UNCHANGED <<ekind, local, timers, pending, events, pollvars, fnvars>>

\* a light or a shade, made from the first snapshot; the monotonic clock is
\* past its first OPTIMISTIC_COOLDOWN
LiveInit ==
    /\ ekind \in {"dimmer", "shade"}
    /\ Loaded(FirstResponse(ekind))
    /\ fn = "none" /\ arg = <<>> /\ out = Pending
    /\ now = OPTIMISTIC_COOLDOWN
    /\ local = [device |-> FirstKey(ekind), last_command_time |-> 0]
    /\ timers = <<>>
    /\ pending = 0
    /\ events = <<>>

LiveNext ==
    \/ PollStart
    \/ LivePollSucceeds
    \/ LiveCommand
    \/ LiveTick

SpecLive == LiveInit /\ [][LiveNext]_vars

\* ---------------------------------------------------- polls that go on
\* the interval elapses and a refresh begins, for ever; the polls after
\* MaxPolls are stamped like poll MaxPolls
SteadyPollStart ==
    /\ pc = "idle"
    /\ setup = "loaded"
    /\ PollTakes(IF clock < MaxPolls THEN clock + 1 ELSE clock)
    /\ UNCHANGED nonpoll

\* async_write_ha_state with the state the entity has already published
\* leaves the published state as it is
WrittenOnce(evs) ==
    IF /\ Len(evs) >= 2
       /\ evs[Len(evs)].ev = "publish"
       /\ evs[Len(evs) - 1] = evs[Len(evs)]
    THEN SubSeq(evs, 1, Len(evs) - 1)
    ELSE evs

\* the poll in flight succeeds: the hub reports the device of the entity,
\* with a level or position of its own that no command changes
SteadyPollSucceeds ==
    /\ pc = "fetching"
    /\ \E resp \in {x \in LiveResponses : x.devices # <<>>} :
       \E r \in {PollAfterGather(cfg, devices, prev_snapshot, prev_names,
                       resp.devices, resp.sensors, resp.thermostats, clock)} :
       \E u \in {CoordinatorUpdate(r.devs, r.result, now)} :
             /\ ~r.raised
             /\ devices' = r.devs
             /\ log' = r.log
             /\ last' = [result |-> "ok", fetch |-> AllOk, response |-> resp]
             /\ RefreshSucceeded(r.result)
             /\ local' = u.local
             /\ events' = IF Len(u.events) > Len(events)
                          THEN WrittenOnce(Append(events,
                                   [u.events[Len(u.events)] EXCEPT !.at = 0]))
                          ELSE events
    /\ data_built' = clock
    /\ UNCHANGED <<cfg, clock, coros, fnvars, ekind, now, timers, pending>>

\* commands come while the clock of the model can still run to the end of
\* their cooldown
SteadyCommand == now + OPTIMISTIC_COOLDOWN <= MaxLiveTime /\ LiveCommand

SteadyNext ==
    \/ SteadyPollStart
    \/ SteadyPollSucceeds
    \/ SteadyCommand
    \/ LiveTick

\* the poll in flight comes to its end; of the steps of SteadyNext only
\* SteadyPollSucceeds is one, and it can be taken whenever a poll is in flight
SteadyPollEnds == pc = "fetching" /\ pc' = "idle"

\* the interval keeps elapsing, the polls keep succeeding and time passes
SpecSteady ==
    /\ LiveInit
    /\ [][SteadyNext]_vars
    /\ WF_vars(SteadyPollStart)
    /\ WF_pc(SteadyPollEnds)
    /\ WF_vars(LiveTick)

\* ------------------------------------------------------ refresh requests
\* CrestronHomeScene.async_activate: execute_scene is awaited, then a
\* refresh is requested
SceneAsyncActivate ==
    /\ CanCommand("scene")
    /\ LET cmd == NumCommands + 1
       IN events' = events \o
             <<Ev("command", "activate", cmd, 0, now),
               Ev("call", "activate", cmd, 0, now),
               Ev("request_refresh", "activate", cmd, 0, now)>>
    /\ UNCHANGED <<ekind, now, local, timers, pending, pollvars, fnvars>>

\* the calls of async_request_refresh that have not reached the coordinator
Unserved ==
    Cardinality({i \in 1..Len(events) : events[i].ev = "request_refresh"})
    - Cardinality({i \in 1..Len(events) :
                      /\ events[i].ev \in {"poll_start", "join"}
                      /\ events[i].op = "request"})

\* the times the update interval has elapsed
IntervalsElapsed ==
    Cardinality({i \in 1..Len(events) : events[i].op = "interval"})

\* a coordinator that begins a poll for every refresh it is asked for
RefreshAlwaysPolls(source) ==
    IF pc = "fetching"
    THEN /\ clock < MaxPolls
         /\ clock' = clock + 1
         /\ events' = Append(events, Ev("poll_start", source, clock + 1, 0, now))
         /\ UNCHANGED <<cfg, devices, prev_snapshot, prev_names, pc, data,
                        last_update_success, setup, registered, platforms,
                        log, last, coros, data_built>>
         /\ UNCHANGED <<ekind, now, local, timers, pending, fnvars>>
    ELSE /\ PollBegins
         /\ events' = Append(events, Ev("poll_start", source, clock + 1, 0, now))
         /\ UNCHANGED <<ekind, now, local, timers, pending, fnvars>>

\* the coordinator is asked for a refresh: while a poll is in flight the
\* request joins it, otherwise a poll begins
RefreshArrives(source) ==
    IF pc = "fetching"
    THEN /\ events' = Append(events, Ev("join", source, clock, 0, now))
         /\ UNCHANGED <<ekind, now, local, timers, pending, pollvars, fnvars>>
    ELSE /\ PollBegins
         /\ events' = Append(events, Ev("poll_start", source, clock + 1, 0, now))
         /\ UNCHANGED <<ekind, now, local, timers, pending, fnvars>>

\* coordinator.async_request_refresh(), awaited by a command handler
AsyncRequestRefresh == Unserved > 0 /\ RefreshArrives("request")

\* the update interval of the coordinator elapses
IntervalElapses ==
    IntervalsElapsed < MaxRefreshes - 1 /\ RefreshArrives("interval")

\* what the hub answers: the device of the entity
RefreshResponses ==
    { [devices |-> << IF ekind = "scene" THEN SceneOnline ELSE ShadeClosed >>,
       sensors |-> <<>>, thermostats |-> <<>>] }

\* the poll in flight returns its snapshot, which is published to the
\* entity
RefreshPollSucceeds ==
    /\ pc = "fetching"
    /\ \E resp \in RefreshResponses :
          LET r == PollAfterGather(cfg, devices, prev_snapshot, prev_names,
                       resp.devices, resp.sensors, resp.thermostats, clock)
              h == CoordinatorUpdate(r.devs, r.result, now)
          IN /\ ~r.raised
             /\ devices' = r.devs
             /\ log' = r.log
             /\ last' = [result |-> "ok", fetch |-> AllOk, response |-> resp]
             /\ RefreshSucceeded(r.result)
             /\ local' = h.local
             /\ events' = Append(h.events, Ev("poll_end", "ok", clock, 0, now))
    /\ data_built' = clock
    /\ UNCHANGED <<cfg, clock, coros, fnvars, ekind, now, timers, pending>>

\* the /devices fetch of the poll in flight fails before the others return
RefreshPollFails ==
    /\ GatherRaises
    /\ last'.fetch = [devices |-> "failed", sensors |-> "pending",
                      thermostats |-> "pending"]
    /\ events' = Append(events, Ev("poll_end", "failed", clock, 0, now))
    /\ UNCHANGED <<fnvars, ekind, now, local, timers, pending>>

\* a shade or a scene, made from the first snapshot and added
RefreshInit ==
    /\ ekind \in {"shade", "scene"}
    /\ Loaded([devices |-> << IF ekind = "scene" THEN SceneOnline ELSE ShadeClosed >>,
                sensors |-> <<>>, thermostats |-> <<>>])
    /\ fn = "none"
    /\ arg = <<>>
    /\ out = [done |-> FALSE, raised |-> FALSE, value |-> <<>>]
    /\ now = 0
    /\ local = [device |-> <<"device", IF ekind = "scene" THEN 3 ELSE 2>>,
                last_command_time |-> 0]
    /\ timers = <<>>
    /\ pending = 0
    /\ events = <<>>

RefreshNext ==
    \/ NumCommands < MaxRefreshes /\ ShadeAsyncOpenCover
    \/ NumCommands < MaxRefreshes /\ SceneAsyncActivate
    \/ AsyncRequestRefresh
    \/ IntervalElapses
    \/ RefreshPollSucceeds
    \/ RefreshPollFails

SpecRefresh == RefreshInit /\ [][RefreshNext]_vars

\* ------------------------------------------- snapshots handed to an entity
\* the levels or positions the hub reports
LookupLevels == {3, 5, 7}

\* what the hub answers: nothing, or the device of the entity
LookupResponses ==
    { [devices |-> <<>>, sensors |-> <<>>, thermostats |-> <<>>] }
    \cup { [devices |-> << IF ekind = "shade"
                           THEN RawDevice(2, <<"B">>, Shade, FALSE, 0, h, "online")
                           ELSE RawDevice(1, <<"L">>, Dimmer, h > 0, h, 0, "online") >>,
            sensors |-> <<>>, thermostats |-> <<>>] : h \in LookupLevels }

\* a snapshot in which the device of the entity is not filed
Omitted(snapshot, id) ==
    [snapshot EXCEPT ![DeviceTypeKey] =
        [i \in DOMAIN snapshot[DeviceTypeKey] \ {id} |-> snapshot[DeviceTypeKey][i]]]

\* the coordinator publishes a snapshot and calls the entity's listener:
\* the snapshot poll_devices built from the hub's answer, or, the hub
\* having answered nothing, one in which the device is not filed
LookupPublish ==
    /\ pc = "idle"
    /\ Len(events) < MaxLookups
    /\ \E resp \in LookupResponses, omitted \in BOOLEAN :
          LET r == PollAfterGather(cfg, devices, <<>>, <<>>,
                       resp.devices, resp.sensors, resp.thermostats, clock + 1)
              snapshot == IF omitted
                          THEN Omitted(r.result, DeviceAt(devices, local.device).id)
                          ELSE r.result
          IN /\ omitted => resp.devices = <<>>
             /\ ~r.raised
             /\ devices' = r.devs
             /\ log' = r.log
             /\ last' = [result |-> "ok", fetch |-> last.fetch, response |-> resp]
             /\ data' = snapshot
             /\ HandleCoordinatorUpdate(r.devs, snapshot, now)
    /\ clock' = clock + 1
    /\ data_built' = clock + 1
    /\ UNCHANGED <<cfg, prev_snapshot, prev_names, pc, last_update_success,
                   setup, registered, platforms, coros>>
    /\ UNCHANGED <<fnvars, ekind, now, timers, pending>>

\* a light or a shade, made from the first snapshot and added; no command
\* was sent
LookupInit ==
    /\ ekind \in {"dimmer", "shade"}
    /\ Loaded(FirstResponse(ekind))
    /\ fn = "none"
    /\ arg = <<>>
    /\ out = [done |-> FALSE, raised |-> FALSE, value |-> <<>>]
    /\ now = OPTIMISTIC_COOLDOWN
    /\ local = [device |-> FirstKey(ekind), last_command_time |-> 0]
    /\ timers = <<>>
    /\ pending = 0
    /\ events = <<>>

LookupNext == LookupPublish

SpecLookup == LookupInit /\ [][LookupNext]_vars

\* ----------------------------------------------- adding a hidden entity
\* every type enabled; no name ignored, or the names with a b or with an l
HiddenConfigs ==
    { [enabled |-> PlatformTypes, ignored |-> <<>>],
      [enabled |-> PlatformTypes, ignored |-> << <<"%","b","%">> >>],
      [enabled |-> PlatformTypes, ignored |-> << <<"%","l","%">> >>] }

\* async_added_to_hass has run
Added == \E i \in 1..Len(events) : events[i].ev = "added"

\* entity_registry.async_get(self.entity_id): the platform files an entity
\* that has a unique id in the registry before it calls async_added_to_hass
RegistryEntry(evs) == \E i \in 1..Len(evs) : evs[i].ev = "registry_entry"

\* an async_added_to_hass that does not look at ha_hidden
AddedToHassHidesAlways(evs, hidden, t) ==
    LET added == Append(evs, Ev("added", "add", 0, 0, t))
    IN IF RegistryEntry(evs)
       THEN Append(added, Ev("hide", "add", 0, 0, t))
       ELSE added

\* async_added_to_hass of CrestronBaseEntity and of CrestronHomeShade:
\* hidden_by="integration" goes to the registry when the device is hidden
\* and the entity has an entry
AddedToHass(evs, hidden, t) ==
    LET added == Append(evs, Ev("added", "add", 0, 0, t))
    IN IF hidden /\ RegistryEntry(evs)
       THEN Append(added, Ev("hide", "add", 0, 0, t))
       ELSE added

\* the platform adds the entity it made
EntityAdded ==
    /\ ~Added
    /\ events' = AddedToHass(Append(events, Ev("registry_entry", "add", 0, 0, now)),
                             EntityDevice.ha_hidden, now)
    /\ UNCHANGED <<ekind, now, local, timers, pending, pollvars, fnvars>>

\* a light or a shade, made from the first snapshot and not yet added
HiddenInit ==
    /\ ekind \in {"dimmer", "shade"}
    /\ \E c \in HiddenConfigs : LoadedWith(c, FirstResponse(ekind))
    /\ fn = "none"
    /\ arg = <<>>
    /\ out = [done |-> FALSE, raised |-> FALSE, value |-> <<>>]
    /\ now = OPTIMISTIC_COOLDOWN
    /\ local = [device |-> FirstKey(ekind), last_command_time |-> 0]
    /\ timers = <<>>
    /\ pending = 0
    /\ events = <<>>

HiddenNext ==
    \/ EntityAdded
    \/ Added /\ PollStart
    \/ Added /\ LivePollSucceeds
    \/ Added /\ LiveCommand

SpecHidden == HiddenInit /\ [][HiddenNext]_vars

\* --------------------------------------------- the thermostat platform
\* a second thermostat of the hub
ThermostatU == RawThermostat(2, <<"U">>, "online")

\* what the hub answers: no device, and none, one or both thermostats
ClimateResponses ==
    { [devices |-> <<>>, sensors |-> <<>>, thermostats |-> t] :
        t \in { <<>>, <<ThermostatT>>, <<ThermostatU>>,
                <<ThermostatT, ThermostatU>> } }

\* added_ids: the ids of the thermostats an entity was made for (an id is
\* put there as its entity is made, and never taken out)
AddedIds(evs) ==
    { evs[i].value : i \in {j \in 1..Len(evs) : evs[j].ev = "add_entity"} }

\* coordinator.data.get(DEVICE_TYPE_THERMOSTAT, {}): the ids filed there
ThermostatIds(snapshot) ==
    IF DEVICE_TYPE_THERMOSTAT \in DOMAIN snapshot
    THEN DOMAIN snapshot[DEVICE_TYPE_THERMOSTAT]
    ELSE {}

\* CrestronHomeThermostat(coordinator, device) for each of ids, handed to
\* async_add_entities
RECURSIVE AddEntities(_, _, _)
AddEntities(evs, ids, t) ==
    IF ids = {} THEN evs
    ELSE LET id == CHOOSE x \in ids : \A y \in ids : x <= y
         IN AddEntities(Append(evs, Ev("add_entity", "thermostat", 0, id, t)),
                        ids \ {id}, t)

\* _async_add_thermostats without the check of added_ids
AsyncAddThermostatsUnchecked(evs, snapshot, t) ==
    AddEntities(evs, ThermostatIds(snapshot), t)

\* _async_add_thermostats: an entity for every thermostat of the snapshot
\* whose id is not in added_ids
AsyncAddThermostats(evs, snapshot, t) ==
    AddEntities(evs, ThermostatIds(snapshot) \ AddedIds(evs), t)

\* the coordinator calls its listeners after it has published a snapshot;
\* the one of the thermostat platform is _async_add_thermostats
ListenersAfterPublish(evs, snapshot, t) == AsyncAddThermostats(evs, snapshot, t)

\* the poll in flight returns its snapshot, which is published
ClimatePollSucceeds ==
    /\ pc = "fetching"
    /\ \E resp \in ClimateResponses :
          LET r == PollAfterGather(cfg, devices, prev_snapshot, prev_names,
                       resp.devices, resp.sensors, resp.thermostats, clock)
          IN /\ ~r.raised
             /\ devices' = r.devs
             /\ log' = r.log
             /\ last' = [result |-> "ok", fetch |-> AllOk, response |-> resp]
             /\ RefreshSucceeded(r.result)
             /\ events' = ListenersAfterPublish(events, r.result, now)
    /\ data_built' = clock
    /\ UNCHANGED <<cfg, clock, coros, fnvars, ekind, now, local, timers, pending>>

\* the platform is set up on the first snapshot: _async_add_thermostats is
\* called once and then registered as a listener
ClimateInit ==
    /\ \E resp \in ClimateResponses : Loaded(resp)
    /\ fn = "none"
    /\ arg = <<>>
    /\ out = [done |-> FALSE, raised |-> FALSE, value |-> <<>>]
    /\ ekind = "none"
    /\ now = 0
    /\ local = [device |-> <<>>, last_command_time |-> 0]
    /\ timers = <<>>
    /\ pending = 0
    /\ events = AsyncAddThermostats(<<>>, data, 0)

ClimateNext ==
    \/ PollStart
    \/ FetchFails
    \/ ClimatePollSucceeds

SpecClimate == ClimateInit /\ [][ClimateNext]_vars

\* ------------------------------------------------------- claims: helpers
Range(seq) == {seq[i] : i \in 1..Len(seq)}

TableDevices == Range(devices)

\* a step in which asyncio.gather returned and poll_devices ran to its end
\* or to an exception
MergeStep == pc = "fetching" /\ pc' = "idle" /\ last'.result \in {"ok", "raised"}

\* a step in which poll_devices returned its snapshot
PollOkStep == MergeStep /\ last'.result = "ok"

\* a step in which asyncio.gather raised the error of a fetch
FetchFailStep == pc = "fetching" /\ pc' = "idle" /\ last'.result = "fetch_failed"

\* a step in which a refresh ended with an exception
RefreshFailStep ==
    /\ pc' = "idle"
    /\ last'.result \in {"fetch_failed", "raised"}
    /\ pc = "fetching" \/ clock' = clock + 1

\* the composite keys a response carries
ResponseKeys(resp) ==
    {<<"device", r.id>> : r \in {x \in Range(resp.devices) : x.id # NoId}}
    \cup {<<"sensor", r.id>> : r \in {x \in Range(resp.sensors) : x.id # NoId}}
    \cup {<<"thermostat", r.id>> : r \in {x \in Range(resp.thermostats) : x.id # NoId}}

\* the raw entries of a response that go to composite key k
EntriesFor(resp, k) ==
    {r \in Range(IF k[1] = "device" THEN resp.devices
                 ELSE IF k[1] = "sensor" THEN resp.sensors
                 ELSE resp.thermostats) : r.id = k[2]}

\* the published snapshot as an entity reads it: each entry is the table's
\* record
SnapshotView(snapshot, devs) ==
    [t \in DOMAIN snapshot |->
        [id \in DOMAIN snapshot[t] |-> DeviceAt(devs, snapshot[t][id])]]

\* ------------------------------------------------------------------ claims

\* C1: when a fetch of a poll fails, poll_devices raises (the refresh ends
\* failed) and the device table, keys and fields, is what it was before the
\* poll, also when the /devices fetch had returned and the /sensors fetch
\* failed.
C1_FetchFailureKeepsTable ==
    [][FetchFailStep => devices' = devices /\ ~last_update_success']_vars

C1_Witness ==
    /\ last.result = "fetch_failed"
    /\ last.fetch.devices = "ok"
    /\ last.fetch.sensors = "failed"
    /\ devices # <<>>

\* C2: when the very first refresh fails, the failure leaves async_setup_entry
\* (not ready): the coordinator is not registered for the entry and no
\* platform is set up.
C2_FirstRefreshFailureNotReady ==
    /\ (pc = "idle" /\ clock = 1 /\ last.result # "ok") => setup = "not_ready"
    /\ setup = "not_ready" => ~registered /\ platforms = {}

C2_Witness ==
    /\ setup = "not_ready"
    /\ last.result = "fetch_failed"
    /\ ~registered

\* C3: when a refresh fails after a refresh has succeeded, the published
\* snapshot stays published and unchanged, as the entities read it, and is
\* neither empty nor absent.
C3_FailedRefreshKeepsSnapshot ==
    [][(RefreshFailStep /\ setup = "loaded") =>
          /\ data' = data
          /\ DOMAIN data' = PlatformTypes
          /\ SnapshotView(data', devices') = SnapshotView(data, devices)]_vars

\* C4: a composite key of the table that no collection of a successful poll
\* carries is removed from the table and reported as removed with its last
\* known name.
C4_AbsentKeyRemoved ==
    [][PollOkStep =>
          \A k \in Keys(devices) :
              k \notin ResponseKeys(last'.response) =>
                  /\ k \notin Keys(devices')
                  /\ <<k, full_name(DeviceAt(devices, k))>> \in log'.removed]_vars

\* the hub returns key k with the raw payload the table's record was last
\* built from
HubUnchanged(k, resp) ==
    /\ EntriesFor(resp, k) # {}
    /\ \A r \in EntriesFor(resp, k) : r = DeviceAt(devices, k).raw_data

WithoutIdless(resp) ==
    [devices |-> SelectSeq(resp.devices, LAMBDA r : r.id # NoId),
     sensors |-> SelectSeq(resp.sensors, LAMBDA r : r.id # NoId),
     thermostats |-> SelectSeq(resp.thermostats, LAMBDA r : r.id # NoId)]

\* C6: a raw device, sensor or thermostat entry that lacks an id does not
\* stop the poll and touches no table entry, and every other entry of the
\* poll is merged: the poll ends as it ends on the same response without the
\* id-less entries (same table, same log, same outcome), no table entry has
\* the key of an id-less entry, and a response whose entries with an id all
\* have a name completes successfully.
C6_IdlessEntrySkipped ==
    [][MergeStep =>
          LET resp == last'.response
              r == PollAfterGather(cfg, devices, prev_snapshot, prev_names,
                       WithoutIdless(resp).devices, WithoutIdless(resp).sensors,
                       WithoutIdless(resp).thermostats, clock)
          IN /\ devices' = r.devs
             /\ log' = r.log
             /\ (last'.result = "ok") = ~r.raised
             /\ last'.result = "ok" => data' = r.result
             /\ \A k \in Keys(devices') : k[2] # NoId
             /\ (\A k \in ResponseKeys(resp) : \A e \in EntriesFor(resp, k) :
                    e.name # NoneStr) => last'.result = "ok"]_vars

C6_Witness ==
    /\ last.result = "ok"
    /\ \E r \in Range(last.response.devices) : r.id = NoId
    /\ \E r \in Range(last.response.sensors) : r.id = NoId
    /\ \E r \in Range(last.response.thermostats) : r.id = NoId
    /\ \A k \in ResponseKeys(last.response) :
          k \in Keys(devices) /\ DeviceAt(devices, k).last_updated = clock
    /\ Cardinality(ResponseKeys(last.response)) >= 3

\* a response without its malformed entries (no id, or a null name)
WithoutMalformed(resp) ==
    [devices |-> SelectSeq(resp.devices,
                           LAMBDA r : r.id # NoId /\ r.name # NoneStr),
     sensors |-> SelectSeq(resp.sensors,
                           LAMBDA r : r.id # NoId /\ r.name # NoneStr),
     thermostats |-> SelectSeq(resp.thermostats,
                               LAMBDA r : r.id # NoId /\ r.name # NoneStr)]

\* C7: a malformed raw entry (no id, or a field of unexpected shape such as
\* a null name) is skipped locally: the poll does not abort, the remaining
\* entries are merged, and the table holds no half-processed record.
C7_MalformedEntrySkipped ==
    [][MergeStep =>
          LET resp == WithoutMalformed(last'.response)
              r == PollAfterGather(cfg, devices, prev_snapshot, prev_names,
                       resp.devices, resp.sensors, resp.thermostats, clock)
          IN /\ last'.result = "ok"
             /\ devices' = r.devs]_vars

\* _matches_ignored_pattern(device.full_name, device.type) returns True
MatchesNameFilter(d) ==
    /\ ~FullNameRaises(d)
    /\ MatchesIgnoredPattern(cfg.ignored, full_name(d), d.type)

CategoryDisabled(d) ==
    /\ GetHaDeviceType(d.type, d.subtype) # ""
    /\ GetHaDeviceType(d.type, d.subtype) \notin cfg.enabled

\* C8: classification takes the first matching branch in the order name
\* filter, category filter, connection: a device whose full name or hub type
\* matches an ignored-name pattern is hidden, with the no-state sentinel and
\* the name-filter reason, also when its platform type is disabled or its
\* connection is offline.
C8_NameFilterFirst ==
    \A d \in TableDevices :
        MatchesNameFilter(d) =>
            /\ d.ha_hidden
            /\ d.ha_state = HaNone
            /\ d.ha_reason = ReasonNameFilter

C8_Witness ==
    \E d \in TableDevices :
        /\ MatchesNameFilter(d)
        /\ CategoryDisabled(d)
        /\ d.connection = "offline"
        /\ d.ha_reason = ReasonNameFilter

\* C9: after any sequence of polls, a device whose mapped platform type is
\* not in the enabled types is hidden and is never available, whatever its
\* connection; its reason is the category-filter reason (the name filter,
\* which classification tries first, gives its own reason to the devices it
\* matches).
C9_DisabledTypeHidden ==
    \A d \in TableDevices :
        CategoryDisabled(d) =>
            /\ d.ha_hidden
            /\ d.ha_state # HaTrue
            /\ ~MatchesNameFilter(d) => d.ha_reason = ReasonCategoryFilter

\* C10: after any sequence of polls, a device that is not hidden is available
\* exactly when its connection is not "offline", is unavailable with the
\* offline reason when offline and has an empty reason otherwise; and
\* is_available is connection # "offline" for every device.
C10_AvailabilityFollowsConnection ==
    \A d \in TableDevices :
        /\ ~d.ha_hidden =>
              /\ d.ha_state = HaTrue <=> d.connection # "offline"
              /\ d.connection = "offline" =>
                    d.ha_state = HaFalse /\ d.ha_reason = ReasonOffline
              /\ d.connection # "offline" => d.ha_reason = ""
        /\ is_available(d) <=> d.connection # "offline"

C12_SnapshotHasSixTypes ==
    [][PollOkStep =>
          /\ data_built' = clock' /\ data_built' # data_built
          /\ DOMAIN data' = {"light", "shade", "scene", "binary_sensor",
                             "sensor", "thermostat"}
          /\ \A t \in DOMAIN data' : \A id \in DOMAIN data'[t] :
                /\ data'[t][id] \in Keys(devices')
                /\ DeviceAt(devices', data'[t][id]).id = id
                /\ GetHaDeviceType(DeviceAt(devices', data'[t][id]).type,
                                   DeviceAt(devices', data'[t][id]).subtype) = t
          /\ \A i \in 1..Len(devices') :
                LET t == GetHaDeviceType(devices'[i].type, devices'[i].subtype)
                IN t # "" => devices'[i].id \in DOMAIN data'[t]]_vars

C12_Witness ==
    /\ last.result = "ok"
    /\ data_built = clock
    /\ clock >= 2
    /\ DOMAIN data["thermostat"] = {}
    /\ DOMAIN data["sensor"] = {}
    /\ DOMAIN data["light"] # {}
    /\ DOMAIN data["scene"] # {}

StaticTable ==
    {<<Dimmer, "light">>, <<Switch, "light">>, <<Shade, "shade">>,
     <<OccupancySensor, "binary_sensor">>, <<DoorSensor, "binary_sensor">>,
     <<PhotoSensor, "sensor">>, <<Thermostat, "thermostat">>}

InStaticTable(t) == \E e \in StaticTable : e[1] = t

StaticTableAt(t) == (CHOOSE e \in StaticTable : e[1] = t)[2]

\* C14: the type mapping returns the platform type of the subtype when the
\* subtype is in the static table, else that of the hub type, else none ("");
\* and it returns "scene" whenever the type or the subtype is "Scene".
C14_TypeMapping ==
    (fn = "_get_ha_device_type" /\ out.done) =>
        /\ ~out.raised
        /\ out.value =
              IF arg.device_type = Scene \/ arg.subtype = Scene THEN "scene"
              ELSE IF InStaticTable(arg.subtype) THEN StaticTableAt(arg.subtype)
              ELSE IF InStaticTable(arg.device_type)
                   THEN StaticTableAt(arg.device_type)
              ELSE ""

C14_Witness ==
    /\ fn = "_get_ha_device_type" /\ out.done
    /\ arg.device_type = Dimmer
    /\ arg.subtype = Shade
    /\ out.value = "shade"

\* pattern p matches string s, both in lower case: %x% is "x occurs in s",
\* %x is "s ends with x", x% is "s starts with x", x is "s is x"
RefMatches(p, s) ==
    IF Len(p) >= 2 /\ p[1] = "%" /\ p[Len(p)] = "%"
    THEN \E i, j \in 0..Len(s) :
            i <= j /\ SubSeq(s, i + 1, j) = SubSeq(p, 2, Len(p) - 1)
    ELSE IF Len(p) >= 1 /\ p[1] = "%"
    THEN \E i \in 0..Len(s) : SubSeq(s, i + 1, Len(s)) = Tail(p)
    ELSE IF Len(p) >= 1 /\ p[Len(p)] = "%"
    THEN \E j \in 0..Len(s) : SubSeq(s, 1, j) = SubSeq(p, 1, Len(p) - 1)
    ELSE s = p

MatcherCalled == fn = "_matches_ignored_pattern" /\ out.done

\* C15: the matcher returns true exactly when some configured pattern matches
\* the full name or the hub type, case-insensitively (%x% substring, %x
\* suffix, x% prefix, x exact), and never with an empty pattern list; %bath%
\* matches "Guest Bathroom", bath% matches "Bathroom" and not "Guest
\* Bathroom", %room matches "Living Room" and not "Roomy Hall".
C15_MatcherSemantics ==
    MatcherCalled =>
        /\ ~out.raised
        /\ out.value <=>
              \E i \in 1..Len(arg.ignored) :
                  \/ RefMatches(Lower(arg.ignored[i]), Lower(arg.name))
                  \/ RefMatches(Lower(arg.ignored[i]), Lower(arg.device_type))
        /\ arg.ignored = <<>> => ~out.value
        /\ arg.device_type = Dimmer =>
              /\ (arg.ignored = <<PatContainsBath>> /\ arg.name = NameGuestBathroom)
                    => out.value
              /\ (arg.ignored = <<PatPrefixBath>> /\ arg.name = NameBathroom)
                    => out.value
              /\ (arg.ignored = <<PatPrefixBath>> /\ arg.name = NameGuestBathroom)
                    => ~out.value
              /\ (arg.ignored = <<PatSuffixRoom>> /\ arg.name = NameLivingRoom)
                    => out.value
              /\ (arg.ignored = <<PatSuffixRoom>> /\ arg.name = NameRoomyHall)
                    => ~out.value

C15_Witness ==
    /\ MatcherCalled
    /\ arg.ignored = <<PatExactBathroom, PatSuffixSensor>>
    /\ arg.name = NameRoomyHall
    /\ arg.device_type = OccupancySensor
    /\ out.value

\* C16 as stated: %bath% matches "Bathroom Light" and "Hall Bathroom" and does
\* not match "Bath House".
C16_BathHouseNotMatched ==
    (MatcherCalled /\ arg.ignored = <<PatContainsBath>> /\ arg.device_type = Dimmer) =>
        /\ arg.name = NameBathroomLight => out.value
        /\ arg.name = NameHallBathroom => out.value
        /\ arg.name = NameBathHouse => ~out.value

\* C16 amended: %bath% matches "Bathroom Light", "Hall Bathroom" and also
\* "Bath House", which contains "bath" when compared case-insensitively.
C16_BathHouseMatched ==
    (MatcherCalled /\ arg.ignored = <<PatContainsBath>> /\ arg.device_type = Dimmer) =>
        /\ arg.name = NameBathroomLight => out.value
        /\ arg.name = NameHallBathroom => out.value
        /\ arg.name = NameBathHouse => out.value

C16_Witness ==
    /\ MatcherCalled
    /\ arg.ignored = <<PatContainsBath>>
    /\ arg.device_type = Dimmer
    /\ arg.name = NameBathHouse
    /\ out.value

\* C17: for every device, full_name is the stripped name when the name
\* starts with the room name, compared case-insensitively, and otherwise the
\* room name, a space and the name (as text), stripped.
C17_FullName ==
    (fn = "full_name" /\ out.done) =>
        /\ ~out.raised
        /\ out.value =
              IF StartsWith(Lower(Fmt(arg.name)), Lower(arg.room))
              THEN Strip(Fmt(arg.name))
              ELSE Strip(arg.room \o <<" ">> \o Fmt(arg.name))

\* ------------------------------------------------ claims: entity commands
\* the positions in the order of things of the events of one kind
EventsOf(ev) == {i \in 1..Len(events) : events[i].ev = ev}

\* the network calls made for command number cmd
CallsOf(cmd) == {i \in EventsOf("call") : events[i].cmd = cmd}

\* C18: two position commands on one shade 50 ms (one tick) apart, with no
\* other command between them, result in exactly one network call, and it
\* carries the second position: never more than one call for the pair, and
\* none with another value than the second's
C18_ShadePositionCollapsed ==
    ekind = "shade" =>
        \A i, j \in EventsOf("command") :
            (/\ events[i].op = "set_position"
             /\ events[j].op = "set_position"
             /\ events[j].cmd = events[i].cmd + 1
             /\ events[j].at = events[i].at + 1)
            => /\ Cardinality(CallsOf(events[i].cmd) \cup CallsOf(events[j].cmd)) <= 1
               /\ \A c \in CallsOf(events[i].cmd) \cup CallsOf(events[j].cmd) :
                      events[c].value = events[j].value

\* the brightness commands of the dimmer, by position in the order of things
BrightnessCommands == {i \in EventsOf("command") : events[i].op = "set_brightness"}

\* a later brightness command arrived less than the debounce window after i
Superseded(i) ==
    \E j \in BrightnessCommands :
        j > i /\ events[j].at - events[i].at < COMMAND_DEBOUNCE_SECONDS

\* every later brightness command arrived more than the window after i
Undisturbed(i) ==
    \A j \in BrightnessCommands :
        j > i => events[j].at - events[i].at > COMMAND_DEBOUNCE_SECONDS

\* C19: of the brightness commands of one dimmer, one that is followed by
\* another in less than the debounce window makes no network call (the new
\* command cancels its timer, and only the newest timer can still be
\* scheduled); one that is not makes exactly one call, carrying its own
\* level, issued one debounce window after it. So a burst makes exactly one
\* call, with the last level, one window after the last command.
C19_BurstMakesOneCall ==
    ekind = "dimmer" =>
        /\ \A i \in BrightnessCommands :
              /\ Cardinality(CallsOf(events[i].cmd)) <= 1
              /\ \A c \in CallsOf(events[i].cmd) :
                    /\ events[c].value = events[i].value
                    /\ events[c].at = events[i].at + COMMAND_DEBOUNCE_SECONDS
              /\ Superseded(i) => CallsOf(events[i].cmd) = {}
              /\ (Undisturbed(i) /\ now > events[i].at + COMMAND_DEBOUNCE_SECONDS)
                    => Cardinality(CallsOf(events[i].cmd)) = 1
        /\ \A k \in 1..Len(timers) :
              k # pending => (timers[k].cancelled \/ timers[k].fired)

\* three brightness commands 50 ms apart, the last two for different levels,
\* and one network call in all: the third command's, 0.2 after it
C19_Witness ==
    /\ ekind = "dimmer"
    /\ Cardinality(BrightnessCommands) = 3
    /\ \A i \in BrightnessCommands : events[i].at = events[i].cmd - 1
    /\ \E i, j \in BrightnessCommands :
          events[i].cmd = 2 /\ events[j].cmd = 3 /\ events[i].value # events[j].value
    /\ Cardinality(EventsOf("call")) = 1
    /\ \A c \in EventsOf("call") :
          events[c].cmd = 3 /\ events[c].at = 2 + COMMAND_DEBOUNCE_SECONDS

\* the commands that ask for a new value: all but the shade's stop, which
\* sends back the position the shade is at
ValueCommands == {i \in EventsOf("command") : events[i].op # "stop"}

\* the field of the local record a command of this entity writes
LocalValue ==
    IF ekind = "shade" THEN EntityDevice.position ELSE EntityDevice.level

\* C20: every command that asks for a new value, those of a debounced burst
\* that never reach the hub included, is followed at once by the state write
\* of the requested value, ahead of any network call made for it, and the
\* local value is the one the latest such command asked for
C20_OptimisticBeforeCall ==
    /\ \A i \in ValueCommands :
          /\ i < Len(events)
          /\ events[i + 1].ev = "publish"
          /\ events[i + 1].cmd = events[i].cmd
          /\ events[i + 1].value = events[i].value
          /\ \A c \in CallsOf(events[i].cmd) : c > i + 1
    /\ \A i \in ValueCommands :
          (\A j \in ValueCommands : j <= i) =>
              (ekind \in {"dimmer", "shade"} /\ LocalValue = events[i].value)



\* ------------------------------------------- claims: commands and snapshots
\* the value of the state the entity wrote last, NoId when it wrote none
LastPublished(evs) ==
    LET P == {i \in 1..Len(evs) : evs[i].ev = "publish"}
    IN IF P = {} THEN NoId
       ELSE evs[CHOOSE i \in P : \A j \in P : j <= i].value

\* a command that asked for a new value was issued less than
\* OPTIMISTIC_COOLDOWN ago
InCooldown ==
    \E i \in ValueCommands : now < events[i].at + OPTIMISTIC_COOLDOWN

\* C21: a snapshot published less than 2 time units after a command of a
\* light or a shade leaves the state the entity has published as it is; a
\* snapshot published when no command is that recent is applied: the entity
\* writes its state, with the value of the snapshot's record
C21_CooldownSuppressesSnapshot ==
    [][PollOkStep =>
          /\ InCooldown => LastPublished(events') = LastPublished(events)
          /\ ~InCooldown =>
                /\ Len(events') = Len(events) + 1
                /\ events'[Len(events')].ev = "publish"
                /\ LastPublished(events') = StateValue(devices', data', local'.device)]_vars



\* C22: while less than 2 time units have passed since the latest command
\* of a light, the level and the status read through the entity are the
\* ones that command set, whatever polls completed in between
C22_CooldownKeepsOptimisticRead ==
    ekind = "dimmer" =>
        \A i \in ValueCommands :
            (/\ \A j \in ValueCommands : j <= i
             /\ now < events[i].at + OPTIMISTIC_COOLDOWN)
            => /\ GetDevice(devices, data, local.device).level = events[i].value
               /\ GetDevice(devices, data, local.device).status
                     = (events[i].op # "turn_off")



\* a step in which a command handler of the entity ran
CommandStep == NumCommands' = NumCommands + 1

\* C27: a command of an entity, its optimistic update included, changes no
\* field of a record of the device table, nor of the published snapshot as
\* its readers see it
C27_CommandsLeaveRecordsAlone ==
    [][CommandStep =>
          /\ devices' = devices
          /\ SnapshotView(data', devices') = SnapshotView(data, devices)]_vars



\* ------------------------------------------------- claims: debounce timers
\* handle k of loop.call_later is scheduled: neither run nor cancelled
Scheduled(k) == ~timers[k].cancelled /\ ~timers[k].fired

\* C23: once an entity with a pending debounced command is removed, its
\* timer is cancelled and no network call is made for it afterwards
C23_TeardownCancelsPending ==
    \A r \in EventsOf("remove") :
        /\ \A k \in 1..Len(timers) : ~Scheduled(k)
        /\ \A c \in EventsOf("call") : c < r

PollsInFlight ==
    Cardinality(EventsOf("poll_start")) - Cardinality(EventsOf("poll_end"))

\* C25: at most one poll is in flight; a refresh asked for while a poll is
\* in flight, by a command or by the interval, begins no poll and joins the
\* one in flight, whose snapshot is the one it finds published afterwards
C25_OnePollInFlight ==
    /\ PollsInFlight \in {0, 1}
    /\ (PollsInFlight = 1) <=> (pc = "fetching")
    /\ clock = 1 + Cardinality(EventsOf("poll_start"))
    /\ \A j \in EventsOf("join") :
          /\ \E s \in EventsOf("poll_start") :
                s < j /\ events[s].cmd = events[j].cmd
          /\ \A e \in EventsOf("poll_end") :
                events[e].cmd = events[j].cmd =>
                    /\ e > j
                    /\ events[e].op = "ok" => data_built >= events[j].cmd

\* a command's request and the interval both joined a poll that has ended
\* with a snapshot
C25_Witness ==
    \E j \in EventsOf("join"), i \in EventsOf("join"), e \in EventsOf("poll_end") :
        /\ events[j].op = "request"
        /\ events[i].op = "interval"
        /\ events[e].cmd = events[j].cmd
        /\ events[e].cmd = events[i].cmd
        /\ events[e].op = "ok"



\* ------------------------------------------ claims: the thermostat platform
\* the entities made for thermostat id
EntitiesOf(id) == {i \in EventsOf("add_entity") : events[i].value = id}

\* C26: after every publish each thermostat of the published snapshot has
\* an entity, one made by the listener when the thermostat first appears
\* in a later snapshot, and no thermostat id ever has more than one
C26_OneEntityPerThermostat ==
    /\ \A id \in ThermostatIds(data) : Cardinality(EntitiesOf(id)) = 1
    /\ \A id \in AddedIds(events) : Cardinality(EntitiesOf(id)) = 1

\* thermostat 2 was discovered by the poll after the first, whose publish
\* made its entity next to the one thermostat 1 has had since the setup
C26_Witness ==
    /\ pc = "idle"
    /\ clock = 2
    /\ last.result = "ok"
    /\ log.discovered = {<<"thermostat", 2>>}
    /\ ThermostatIds(data) = {1, 2}
    /\ Len(events) = 2
    /\ events[1].value = 1
    /\ events[2].value = 2



\* ------------------------------------------------- claims: device lookup
\* the device of the entity is filed in the published snapshot
Filed == SnapshotEntry(devices, data, local.device) # <<>>

\* C28: when a snapshot is published, the entity's lookup answers the
\* record filed under its type and id when there is one, and the published
\* state is that record's; when none is filed the entity keeps the record
\* it held and publishes the state it had
C28_LookupFallsBack ==
    [][ IF Filed'
        THEN /\ local'.device = SnapshotEntry(devices', data', local.device)
             /\ GetDevice(devices', data', local'.device)
                    = DeviceAt(devices', data'[DeviceTypeKey][DeviceAt(devices, local.device).id])
             /\ LastPublished(events')
                    = StateValue(devices', data', SnapshotEntry(devices', data', local.device))
        ELSE /\ local'.device = local.device
             /\ GetDevice(devices', data', local'.device) = DeviceAt(devices, local.device)
             /\ LastPublished(events') = StateValue(devices, data, local.device)
      ]_vars

\* the device was reported with level 5, then missing from a snapshot
\* while the entity kept 5, then filed again with level 7
C28_Witness ==
    /\ Len(events) = 3
    /\ events[1].value = 5
    /\ events[2].value = 5
    /\ events[3].value = 7
    /\ last.response.devices # <<>>
    /\ Filed



\* ------------------------------------------------ claims: hidden entities
\* C29: an entity whose device is classified hidden has registered itself
\* as hidden exactly once, as it was added, and one whose device is not
\* hidden never has; coordinator updates and commands add no registration
C29_HiddenRegisteredOnce ==
    /\ ~Added => EventsOf("hide") = {}
    /\ Added =>
          /\ Cardinality(EventsOf("hide"))
                 = (IF EntityDevice.ha_hidden THEN 1 ELSE 0)
          /\ \A h \in EventsOf("hide") : events[h - 1].ev = "added"

\* a hidden entity was added and registered, and a coordinator update has
\* been handled since
C29_Witness ==
    /\ EntityDevice.ha_hidden
    /\ \E h \in EventsOf("hide"), u \in EventsOf("publish") :
          h < u /\ events[u].op = "update"



\* ------------------------------------------------- claims: atomic merge
\* every well-formed entry of every collection of the response is in the
\* table, written by this poll
AllCollectionsMerged(devs, resp, t) ==
    \A k \in ResponseKeys(WithoutMalformed(resp)) :
        k \in Keys(devs) /\ DeviceAt(devs, k).last_updated = t

\* C30: the table is modified only by a step that follows the return of
\* all fetches and merges all the collections of the poll, so that no
\* reader finds a table with only some of them merged
C30_MergeIsAtomic ==
    [][devices' # devices =>
          /\ MergeStep
          /\ AllCollectionsMerged(devices', last'.response, clock)]_vars



\* ---------------------------------------------- claims: change detection
\* the keys of the table that were in it before the poll and whose change
\* fields differ from the tuple captured before the merge
ChangedKeys ==
    {k \in Keys(devices) \cap Keys(devices') :
        /\ k \in DOMAIN prev_snapshot
        /\ DeviceSnapshotTuple(DeviceAt(devices', k)) # prev_snapshot[k]}

\* C31 as stated: on every successful poll the keys new to the table are
\* reported as discovered and the keys whose change fields differ as changed
C31_ChangesReportedEveryPoll ==
    [][PollOkStep =>
          /\ log'.discovered = Keys(devices') \ Keys(devices)
          /\ log'.changed = ChangedKeys]_vars

\* C31: on every successful poll that began with a table holding at least
\* one device, the keys new to the table are reported as discovered and
\* the keys whose change fields differ as changed; a poll that began with
\* an empty table reports nothing
C31_ChangesReported ==
    [][PollOkStep =>
          IF Keys(devices) # {}
          THEN /\ log'.discovered = Keys(devices') \ Keys(devices)
               /\ log'.changed = ChangedKeys
          ELSE /\ log'.discovered = {}
               /\ log'.changed = {}]_vars

\* a poll has reported a key as discovered and another as changed
C31_Witness ==
    /\ last.result = "ok"
    /\ log.discovered # {}
    /\ log.changed # {}



\* ------------------------------------------- claims: ids across namespaces
\* C32: after every successful poll each record of the table whose type
\* maps to a platform type, hidden or not, is the entry of the snapshot
\* under that type and its id; records of different namespaces that share
\* an id are not collapsed into one entry
C32_EveryRecordFiled ==
    [][PollOkStep =>
          \A i \in 1..Len(devices') :
              LET t == GetHaDeviceType(devices'[i].type, devices'[i].subtype)
              IN t \in PlatformTypes =>
                    /\ devices'[i].id \in DOMAIN data'[t]
                    /\ data'[t][devices'[i].id] = devices'[i].key]_vars



\* ------------------------------------------------ claims: last command
\* the last element of the set of event indices S
LastOf(S) == CHOOSE i \in S : \A j \in S : j <= i

\* C33: on a dimmer, once no debounce timer is scheduled any more and at
\* least one command was given, the level of the last network call is the
\* level of the last command, which is the level the entity holds
C33_LastSentIsLastRequested ==
    (/\ ekind = "dimmer"
     /\ EventsOf("command") # {}
     /\ \A k \in 1..Len(timers) : ~Scheduled(k))
    => /\ EventsOf("call") # {}
       /\ events[LastOf(EventsOf("call"))].value
              = events[LastOf(EventsOf("command"))].value
       /\ EntityDevice.level = events[LastOf(EventsOf("command"))].value



\* --------------------------------------------------- claims: convergence
\* the level or position the hub reports
HubLevel == CHOOSE h \in HubLevels : TRUE

\* C34: with no further command, a hub that keeps reporting the same state
\* and polls that keep succeeding, the state the entity has published is
\* eventually, and from then on, the one the hub reports
C34_EventuallyHubState == <>[](LastPublished(events) = HubLevel)

\* a light has published the level of a command, a poll has been handled
\* during the cooldown, and the level of the hub has been published since
C34_Witness ==
    /\ ekind = "dimmer"
    /\ \E c \in EventsOf("publish"), u \in EventsOf("publish") :
          /\ c < u
          /\ events[c].op = "turn_on"
          /\ events[u].op = "update"
    /\ LastPublished(events) = HubLevel
    /\ DeviceAt(devices, local.device).last_updated >= 3



\* ------------------------------------------- claims: payloads that change
\* what identifies a record
IdentityOf(d) == <<d.id, d.room, d.name, d.type, d.subtype, d.room_id>>

\* the collections that the poll fetched, as they were merged
Merged(resp) == [resp EXCEPT !.thermostats = IF "thermostats" \in coros THEN resp.thermostats ELSE <<>>]

\* C35: a successful poll leaves id, room, name, type, subtype and room id
\* of every device and sensor key that was in the table as they were,
\* whatever the payload carries for them, and leaves the record of a key
\* that the hub did not return as it was
C35_UpdateKeepsIdentity ==
    [][PollOkStep =>
          \A k \in Keys(devices) :
              /\ k[1] \in {"device", "sensor"} =>
                    IdentityOf(DeviceAt(devices', k)) = IdentityOf(DeviceAt(devices, k))
              /\ k \notin ResponseKeys(Merged(last'.response)) =>
                    DeviceAt(devices', k) = DeviceAt(devices, k)]_vars

\* the record of key k was made by an earlier poll and the last poll has
\* stored a payload for it that carries another name, type and room
Overwritten(k) ==
    /\ k \in Keys(devices)
    /\ DeviceAt(devices, k).created < DeviceAt(devices, k).last_updated
    /\ DeviceAt(devices, k).raw_data \in EntriesFor(last.response, k)
    /\ DeviceAt(devices, k).raw_data.name # DeviceAt(devices, k).name
    /\ DeviceAt(devices, k).raw_data.roomId # DeviceAt(devices, k).room_id
    /\ DeviceAt(devices, k).type #
          (IF k[1] = "device" THEN DeviceAt(devices, k).raw_data.type
           ELSE DeviceAt(devices, k).raw_data.subType)

C35_Witness ==
    /\ last.result = "ok"
    /\ Overwritten(<<"device", 1>>)
    /\ Overwritten(<<"sensor", 1>>)
    /\ DeviceAt(devices, <<"device", 1>>).level = 9

\* C36: after a successful poll every raw entry with an id, 0 included, of
\* the collections that were fetched has a record under its composite key
C36_PresentIdYieldsEntry ==
    [][PollOkStep => ResponseKeys(Merged(last'.response)) \subseteq Keys(devices')]_vars

\* the record that a successful poll holds for a returned sensor
SensorRecord(r) == DeviceAt(devices, <<"sensor", r.id>>)

\* C38: after a successful poll the status of every occupancy sensor the
\* poll returned is on exactly when its presence, "Unavailable" when
\* missing, is neither "Vacant" nor "Unavailable", and the status of every
\* door sensor returned is on exactly when its door status, "Closed" when
\* missing, is "Open"; for a new record and for a known one
C38_StatusAgrees ==
    (pc = "idle" /\ last.result = "ok") =>
        \A r \in Range(last.response.sensors) :
            <<"sensor", r.id>> \in Keys(devices) =>
                /\ r.subType = OccupancySensor =>
                      /\ SensorRecord(r).presence = Get(r.presence, "Unavailable")
                      /\ SensorRecord(r).status =
                            (SensorRecord(r).presence \notin {"Vacant", "Unavailable"})
                /\ r.subType = DoorSensor =>
                      /\ SensorRecord(r).door_status = Get(r.door_status, "Closed")
                      /\ SensorRecord(r).status = (SensorRecord(r).door_status = "Open")

\* a poll has updated an occupancy sensor that it returned without a
\* presence and a door sensor that it returned without a door status, both
\* on before
C38_Witness ==
    /\ pc = "idle"
    /\ last.result = "ok"
    /\ clock >= 2
    /\ \E r \in Range(last.response.sensors) :
          /\ r.subType = DoorSensor
          /\ r.door_status = Absent
          /\ <<"sensor", r.id>> \in Keys(devices)
          /\ SensorRecord(r).created < clock
          /\ ~SensorRecord(r).status
    /\ \E r \in Range(last.response.sensors) :
          /\ r.subType = OccupancySensor
          /\ r.presence \in {Absent, "Vacant"}
          /\ <<"sensor", r.id>> \in Keys(devices)
          /\ SensorRecord(r).created < clock
          /\ ~SensorRecord(r).status



\* ------------------------------------------------ claims: failing calls
\* a step in which the network call of a debounced command failed
CallFailStep ==
    Len(events') > Len(events) /\ events'[Len(events')].ev \in {"logged_exception", "task_exception"}

\* C37: the failure of the network call of a debounced command reaches no
\* caller, changes neither the record of the entity nor the state it has
\* published, and leaves the debouncing as it is: every later brightness
\* command gets a handle, and every handle that was not cancelled has run
\* once its time has passed
C37_FailedCallContained ==
    [][/\ CallFailStep =>
             /\ devices' = devices
             /\ local' = local
             /\ pending' = pending
             /\ LastPublished(events') = LastPublished(events)
       /\ EventsOf("task_exception")' = {}
       /\ (CommandStep /\ EventsOf("logged_exception") # {}) =>
             /\ pending' = Len(timers')
             /\ Scheduled(pending)'
             /\ timers'[pending'].cmd = NumCommands'
             /\ timers'[pending'].due = now + COMMAND_DEBOUNCE_SECONDS
       /\ \A k \in 1..Len(timers') :
             (~timers'[k].cancelled /\ timers'[k].due < now') =>
                 /\ timers'[k].fired
                 /\ \E i \in 1..Len(events') :
                       /\ events'[i].ev = "call"
                       /\ events'[i].cmd = timers'[k].cmd]_vars

\* the call of the first command failed, the level of that command stayed
\* in the record, and a later command was debounced and sent
C37_Witness ==
    \E f \in EventsOf("logged_exception"), c \in EventsOf("command"), n \in EventsOf("call") :
        /\ f < c
        /\ c < n
        /\ events[n].cmd = events[c].cmd
        /\ events[n].value = events[c].value
        /\ events[c].value # events[f].value
        /\ EntityDevice.level = events[c].value


\* ------------------------------------------ claims: unload and reload
\* the device types that the options of the call disable
DisabledByChange ==
    arg.hs.entry_data.enabled_device_types
        \ MergedData(arg.hs.entry_data, arg.hs.entry_options).enabled_device_types

\* C39: async_unload_entry removes the coordinator of the entry from
\* hass.data[DOMAIN] exactly when the platforms were unloaded; after
\* async_reload_entry with a successful first refresh the entry has the
\* coordinator made by that call, built from the data merged with the
\* options, whether the old platforms were unloaded or not, and the entity
\* registry has no entity of a type the options have disabled
C39_UnloadAndReload ==
    out.done =>
        /\ fn = "async_unload_entry" =>
              /\ (out.value.hs.hass_data = NoCoordinator) = arg.unload_ok
              /\ ~arg.unload_ok => out.value.hs.hass_data = arg.hs.hass_data
        /\ (fn = "async_reload_entry" /\ arg.first_refresh_ok) =>
              /\ ~out.raised
              /\ out.value.hs.hass_data =
                    Coordinator(arg.hs.made + 1,
                                MergedData(arg.hs.entry_data, arg.hs.entry_options))
              /\ out.value.hs.hass_data.id # arg.hs.hass_data.id
              /\ out.value.hs.entry_data =
                    MergedData(arg.hs.entry_data, arg.hs.entry_options)
              /\ out.value.hs.entities
                    \cap PlatformsForDeviceTypes(DisabledByChange) = {}

\* a reload whose options disable the shades and change the interval, with
\* cover entities registered and platforms that did not unload
C39_Witness ==
    /\ out.done
    /\ fn = "async_reload_entry"
    /\ arg.first_refresh_ok
    /\ ~arg.unload_ok
    /\ DisabledByChange = {DEVICE_TYPE_SHADE}
    /\ "cover" \in arg.hs.entities
    /\ out.value.hs.hass_data.update_interval # arg.hs.hass_data.update_interval
    /\ out.value.hs.hass_data.id = 2


=============================================================================
